---- MODULE Spec2Model ----
(***************************************************************************)
(* State-machine model of the inter-thread message queue of src/src/iqueue.c *)
(* (iqueue_t: multi reader / multi writer, iqueue1_t: single reader /       *)
(* single writer).  Every atomic access to shared memory is one step of    *)
(* the calling thread; thread-local computation is folded into the step    *)
(* that follows it.  A section of code that runs with a gate's mutex held  *)
(* and touches only fields guarded by that mutex is one step.              *)
(***************************************************************************)
EXTENDS Integers, Sequences, FiniteSets, TLC

\* ------------------------------------------------------------ bounds

\* log2 of the number of shards: iqueue.c derives NROFSIZE from the length
\* of sizeused[] (256 in the repository); the model scales it down.
LogNrOfSize == 1

\* largest capacity requested from new_iqueue / new_iqueue1
MaxReqCapacity == 2

\* number of threads of a run
NrThreads == 3

\* largest number of API calls one thread makes in a run
MaxCalls == 2

\* largest number of spurious returns of pthread_cond_wait in a run
MaxSpurious == 1

\* largest capacity passed to new_iqueue / new_iqueue1 in the runs that
\* create a queue (besides (uint32_t)-1)
MaxNewCapacity == 9

Threads == 1..NrThreads

\* ------------------------------------------------- 32 bit arithmetic

\* An uint32_t value v is held as the integer congruent to v modulo 2^32
\* in -2^31 .. 2^31-1 (2^32 itself is no TLC integer).
Inc32(x) == IF x = 2147483647 THEN -2147483647 - 1 ELSE x + 1

Dec32(x) == IF x = -2147483647 - 1 THEN 2147483647 ELSE x - 1

\* a - b of two uint32_t
Sub32(a, b) ==
    IF a >= 0 /\ b < 0
    THEN IF a - 2147483647 - 1 >= b
         THEN ((a - 2147483647 - 1) - b) - 2147483647 - 1
         ELSE a - b
    ELSE IF a < 0 /\ b >= 0
    THEN IF a + 2147483647 + 1 >= b
         THEN a - b
         ELSE ((a + 2147483647 + 1) - b) + 2147483647 + 1
    ELSE a - b

\* unsigned comparison "x < c" for 0 <= c < 2^31
Below32(x, c) == x >= 0 /\ x < c

RECURSIVE BitAnd(_, _)
BitAnd(a, b) ==
    IF a = 0 \/ b = 0 THEN 0
    ELSE (a % 2) * (b % 2) + 2 * BitAnd(a \div 2, b \div 2)

Low31(x) == IF x < 0 THEN x + 2147483647 + 1 ELSE x

\* the C operator & on two uint32_t values
And32(a, b) ==
    LET r == BitAnd(Low31(a), Low31(b))
    IN  IF a < 0 /\ b < 0 THEN r - 2147483647 - 1 ELSE r

\* ----------------------------------------------------------- queue

NROFSIZE == 2 ^ LogNrOfSize

Shards == 0 .. NROFSIZE - 1

RECURSIVE AlignLoop(_, _)
AlignLoop(aligned, capacity) ==
    IF aligned < capacity THEN AlignLoop(2 * aligned, capacity) ELSE aligned

\* aligned_capacity of new_iqueue (requests far below the EINVAL limit)
AlignedCapacity(capacity) ==
    LET isNOTpowerof2 == And32(capacity, Dec32(capacity))
        start == IF capacity < NROFSIZE \/ isNOTpowerof2 # 0
                 THEN NROFSIZE ELSE capacity \div 2
    IN  AlignLoop(start, capacity)

VARIABLES
    capacity,   \* queue->capacity
    closed,     \* queue->closed
    ifree,      \* queue->ifree
    iused,      \* queue->iused
    sizefree,   \* queue->sizefree[]
    sizeused,   \* queue->sizeused[]
    writepos,   \* queue->writepos
    readpos,    \* queue->readpos
    msg,        \* queue->msg[]
    gate,       \* queue->reader, queue->writer, or an iqsignal_t of its
                \* own: lock owner (0: free), waitcount, signalcount,
                \* threads blocked on cond
    th,         \* per thread: position and locals of the running call
    prog,       \* per thread: calls it may still make
    sent,       \* handles whose send returned 0, in order of return
                \* (runs of an iqsignal_t alone: one entry per
                \* signal_iqsignal call)
    recvd,      \* handles taken out of a cell, in order of removal
                \* (runs of an iqsignal_t alone: the values returned by
                \* clearsignal_iqsignal)
    closeRet,   \* number of close calls that have returned
    spurious    \* number of spurious wakeups so far

ringVars == <<capacity, closed, ifree, iused, sizefree, sizeused,
              writepos, readpos, msg>>

logVars == <<sent, recvd, closeRet, spurious>>

vars == <<capacity, closed, ifree, iused, sizefree, sizeused,
          writepos, readpos, msg, gate, th, prog, sent, recvd, closeRet,
          spurious>>

Gates == {"reader", "writer"}

\* init_iqsignal
InitGate == [lock |-> 0, waitcount |-> 0, signalcount |-> 0, cond |-> {}]

\* op: the running (or last) call; msg: the handle passed or received;
\* request, aligned_capacity: capacity and aligned_capacity of new_iqueue;
\* sizebits: the width of size_t in the build the thread runs;
\* queue: the caller's pointer to the queue (0: null), which new_iqueue
\* sets and delete_iqueue clears;
\* snap: the queue and its gates as they were when the call started, if
\* no other call was running then and none has started since, <<0>>
\* otherwise (kept in the runs that look at calls running alone, empty
\* elsewhere);
\* before: the numbers of sends and of receives that had returned 0 when
\* the call started (kept in the runs of the SPSC queue in which producer
\* and consumer query the size, empty elsewhere);
\* the flags late, atcall and atset tell where the call stood relative to
\* close: started after a close had returned; blocked on its condition
\* variable when a close was called, every other thread being blocked as
\* well or through with its calls; inside pthread_cond_wait when closed
\* was set
IdleThread ==
    [pc |-> "ret", op |-> "none", slow |-> FALSE, msg |-> 0, i |-> 0,
     idx |-> 0, pos |-> 0, fetched |-> 0, err |-> "OK", nr |-> 0,
     late |-> FALSE, rcv |-> FALSE, isreader |-> 0, atcall |-> FALSE,
     atset |-> FALSE, size |-> 0, rpos |-> 0, wpos |-> 0,
     request |-> 0, aligned_capacity |-> 0, sizebits |-> 0, queue |-> 1,
     snap |-> << >>, before |-> << >>]

\* the handle thread t passes to its n-th send
Handle(t, n) == 10 * t + n

Producer(h) == h \div 10

\* new_iqueue(&queue, c): the fields of the new queue
NewQueue(c) ==
    [capacity |-> AlignedCapacity(c),
     closed   |-> 0,
     ifree    |-> 0,
     iused    |-> 0,
     sizefree |-> [s \in Shards |-> AlignedCapacity(c) \div NROFSIZE],
     sizeused |-> [s \in Shards |-> 0],
     writepos |-> 0,
     readpos  |-> 0,
     msg      |-> [p \in 0 .. AlignedCapacity(c) - 1 |-> 0]]

\* new_iqueue1(&queue, c) for c >= 1 below the EINVAL limit: the fields of
\* the new queue (iqueue1_t has no shards: those variables stay 0)
NewQueue1(c) ==
    [capacity |-> c,
     closed   |-> 0,
     ifree    |-> 0,
     iused    |-> 0,
     sizefree |-> [s \in Shards |-> 0],
     sizeused |-> [s \in Shards |-> 0],
     writepos |-> 0,
     readpos  |-> 0,
     msg      |-> [p \in 0 .. c - 1 |-> 0]]

\* trysend_iqueue(q, m) run to its end with no other thread active, from
\* iteration i of its loop, on an open queue whose cell at writepos is
\* empty: the queue it leaves
RECURSIVE SeqTrySend(_, _, _)
SeqTrySend(q, m, i) ==
    LET idx == q.ifree
        left == Dec32(q.sizefree[idx])
    IN  IF Below32(left, q.capacity)
        THEN [q EXCEPT !.sizefree[idx] = left,
                       !.writepos = Inc32(@),
                       !.msg[And32(q.writepos, q.capacity - 1)] = m,
                       !.sizeused[idx] = Inc32(@)]
        ELSE LET r == [q EXCEPT !.ifree = And32(idx + 1, NROFSIZE - 1)]
             IN  IF i = NROFSIZE - 1 THEN r ELSE SeqTrySend(r, m, i + 1)

\* the queue after the creating thread has sent the handles 1 .. k
RECURSIVE Filled(_, _)
Filled(q, k) == IF k = 0 THEN q ELSE SeqTrySend(Filled(q, k - 1), k, 0)

\* the variables of the ring hold queue q, both gates as init_iqsignal
\* leaves them
InitQueue(q) ==
    /\ capacity = q.capacity
    /\ closed = q.closed
    /\ ifree = q.ifree
    /\ iused = q.iused
    /\ sizefree = q.sizefree
    /\ sizeused = q.sizeused
    /\ writepos = q.writepos
    /\ readpos = q.readpos
    /\ msg = q.msg
    /\ gate = [g \in Gates |-> InitGate]

\* --------------------------------------------------------- threads

SendCalls == {"send", "trysend", "send1", "trysend1"}

RecvCalls == {"recv", "tryrecv", "recv1", "tryrecv1"}

TryCalls == {"trysend", "tryrecv", "trysend1", "tryrecv1"}

CloseCalls == {"close", "close1", "delete"}

\* the gate a blocking call waits at
Own(op) ==
    IF op \in SendCalls THEN "writer"
    ELSE IF op = "wait" THEN "signal"
    ELSE "reader"

\* the first position of a call (trysend / tryrecv inside send / recv)
StartPc(op) ==
    CASE op \in {"send", "trysend"}   -> "ts0"
      [] op \in {"recv", "tryrecv"}   -> "tr0"
      [] op \in {"send1", "trysend1"} -> "ts1"
      [] op \in {"recv1", "tryrecv1"} -> "tr1"
      [] op = "size"                  -> "sz"
      [] op = "size1"                 -> "sz1"
      [] op = "wait"                  -> "w_lock"
      [] op = "signal"                -> "sg_lock"
      [] op = "clearsignal"           -> "cs_lock"
      [] OTHER                        -> "c_lockr"

\* variant of AfterTry: the parked loop is left after one try, whatever
\* the try returned
AfterTry_NoLoop(r, e) ==
    [r EXCEPT !.err = e, !.i = 0, !.idx = 0, !.pos = 0, !.fetched = 0,
              !.pc = CASE r.op \in TryCalls -> "ret"
                       [] r.slow           -> "leave"
                       [] e = "OK"         -> "wake"
                       [] e = "EAGAIN"     -> "slowlock"
                       [] OTHER            -> "ret"]

\* where a thread continues once its try call has returned e:
\* trysend / tryrecv return to the caller; send / recv continue with the
\* wake-up macro (fast path) or with the test of the parked loop (slow path)
AfterTry(r, e) ==
    [r EXCEPT !.err = e, !.i = 0, !.idx = 0, !.pos = 0, !.fetched = 0,
              !.pc = CASE r.op \in TryCalls       -> "ret"
                       [] r.slow /\ e = "EAGAIN" -> "park"
                       [] r.slow                 -> "leave"
                       [] e = "OK"               -> "wake"
                       [] e = "EAGAIN"           -> "slowlock"
                       [] OTHER                  -> "ret"]

\* threads of cond released by pthread_cond_signal / pthread_cond_broadcast
\* continue by taking the mutex again
Release(woken, t, r) ==
    [x \in Threads |->
        IF x = t THEN r
        ELSE IF x \in woken THEN [th[x] EXCEPT !.pc = "relock"]
        ELSE th[x]]

\* the calls that pass the null handle, and the function each one calls
NullCalls == {"send0", "trysend0", "send10", "trysend10"}

OpOf(o) ==
    CASE o = "send0"     -> "send"
      [] o = "trysend0"  -> "trysend"
      [] o = "send10"    -> "send1"
      [] o = "trysend10" -> "trysend1"
      [] OTHER           -> o

\* thread t is the only one that is neither blocked on a condition
\* variable nor through with its calls
OthersParked(t) ==
    \A y \in Threads \ {t} :
        \/ th[y].pc = "blocked"
        \/ th[y].pc = "ret" /\ prog[y] = << >>

\* A thread starts its next call: one of the calls its program allows
\* next.  A send passes a handle no other send passes, or the null handle.
Call(t) ==
    /\ th[t].pc = "ret"
    /\ prog[t] # << >>
    /\ \E o \in Head(prog[t]) :
         LET fresh == OpOf(o) \in SendCalls /\ o \notin NullCalls
             r == [IdleThread EXCEPT
                     !.op = OpOf(o),
                     !.pc = StartPc(OpOf(o)),
                     !.msg = IF fresh THEN Handle(t, th[t].nr + 1) ELSE 0,
                     !.nr = IF fresh THEN th[t].nr + 1 ELSE th[t].nr,
                     !.rcv = th[t].rcv \/ o \in RecvCalls,
                     !.late = closeRet > 0,
                     !.before = IF th[t].before = << >> THEN << >>
                                ELSE <<Len(sent), Len(recvd)>>,
                     !.snap = IF th[t].snap = << >> THEN << >>
                              ELSE IF \A x \in Threads \ {t} :
                                          th[x].pc = "ret"
                              THEN <<ringVars, gate>>
                              ELSE <<0>>]
         IN  th' = [x \in Threads |->
                      IF x = t THEN r
                      ELSE IF /\ o \in CloseCalls
                              /\ th[x].pc = "blocked"
                              /\ OthersParked(t)
                      THEN [th[x] EXCEPT !.atcall = TRUE]
                      ELSE IF th[x].snap # << >> /\ th[x].pc # "ret"
                      THEN [th[x] EXCEPT !.snap = <<0>>]
                      ELSE th[x]]
    /\ prog' = [prog EXCEPT ![t] = Tail(@)]
    /\ UNCHANGED <<ringVars, gate, logVars>>

\* ------------------------------------------- trysend_iqueue (MPMC)

SendOp(t) == th[t].op \in SendCalls

RecvOp(t) == th[t].op \in RecvCalls

\* variant of TrySend_ReadIfree: closed is tested before the handle
TrySend_ReadIfree_ClosedFirst(t) ==
    /\ th[t].pc = "ts0"
    /\ th' = [th EXCEPT ![t] =
                IF closed # 0 THEN AfterTry(th[t], "EPIPE")
                ELSE IF th[t].msg = 0 THEN AfterTry(th[t], "EINVAL")
                ELSE [th[t] EXCEPT !.idx = ifree, !.pc = "ts_closed"]]
    /\ UNCHANGED <<ringVars, gate, prog, logVars>>

\* if (0 == msg) return EINVAL;  ifree = queue->ifree;
TrySend_ReadIfree(t) ==
    /\ th[t].pc = "ts0"
    /\ th' = [th EXCEPT ![t] =
                IF th[t].msg = 0 THEN AfterTry(th[t], "EINVAL")
                ELSE [th[t] EXCEPT !.idx = ifree, !.pc = "ts_closed"]]
    /\ UNCHANGED <<ringVars, gate, prog, logVars>>

\* if (queue->closed) return EPIPE;
TrySend_Closed(t) ==
    /\ th[t].pc = "ts_closed"
    /\ th' = [th EXCEPT ![t] =
                IF closed # 0 THEN AfterTry(th[t], "EPIPE")
                ELSE [th[t] EXCEPT !.pc = "ts_reserve"]]
    /\ UNCHANGED <<ringVars, gate, prog, logVars>>

\* sizefree = fetchadd(&queue->sizefree[ifree], -1) - 1;
\* if (sizefree < queue->capacity) break;
TrySend_Reserve(t) ==
    /\ th[t].pc = "ts_reserve"
    /\ sizefree' = [sizefree EXCEPT ![th[t].idx] = Dec32(@)]
    /\ th' = [th EXCEPT ![t] =
                IF Below32(Dec32(sizefree[th[t].idx]), capacity)
                THEN [th[t] EXCEPT !.i = 0, !.pc = "ts_ticket"]
                ELSE [th[t] EXCEPT !.pc = "ts_undo"]]
    /\ UNCHANGED <<capacity, closed, ifree, iused, sizeused, writepos,
                   readpos, msg, gate, prog, logVars>>

\* variant of TrySend_Undo: the failed reservation is not added back
TrySend_Undo_Skip(t) ==
    /\ th[t].pc = "ts_undo"
    /\ th' = [th EXCEPT ![t].pc = "ts_rotate"]
    /\ UNCHANGED <<ringVars, gate, prog, logVars>>

\* fetchadd(&queue->sizefree[ifree], 1);
TrySend_Undo(t) ==
    /\ th[t].pc = "ts_undo"
    /\ sizefree' = [sizefree EXCEPT ![th[t].idx] = Inc32(@)]
    /\ th' = [th EXCEPT ![t].pc = "ts_rotate"]
    /\ UNCHANGED <<capacity, closed, ifree, iused, sizeused, writepos,
                   readpos, msg, gate, prog, logVars>>

\* variant of TrySend_Rotate: EAGAIN after the first failed reservation
TrySend_Rotate_Once(t) ==
    /\ th[t].pc = "ts_rotate"
    /\ ifree' = IF ifree = th[t].idx
                THEN And32(th[t].idx + 1, NROFSIZE - 1) ELSE ifree
    /\ th' = [th EXCEPT ![t] = AfterTry(th[t], "EAGAIN")]
    /\ UNCHANGED <<capacity, closed, iused, sizefree, sizeused, writepos,
                   readpos, msg, gate, prog, logVars>>

\* cmpxchg(&queue->ifree, ifree, (ifree+1) & (NROFSIZE-1));
\* if (i == NROFSIZE-1) return EAGAIN;   ++i
TrySend_Rotate(t) ==
    /\ th[t].pc = "ts_rotate"
    /\ ifree' = IF ifree = th[t].idx
                THEN And32(th[t].idx + 1, NROFSIZE - 1) ELSE ifree
    /\ th' = [th EXCEPT ![t] =
                IF th[t].i = NROFSIZE - 1 THEN AfterTry(th[t], "EAGAIN")
                ELSE [th[t] EXCEPT !.i = @ + 1, !.pc = "ts0"]]
    /\ UNCHANGED <<capacity, closed, iused, sizefree, sizeused, writepos,
                   readpos, msg, gate, prog, logVars>>

\* variant of TrySend_Ticket: the ticket is the incremented writepos
\* (add-and-fetch in place of fetch-and-add)
TrySend_Ticket_AddFetch(t) ==
    /\ th[t].pc = "ts_ticket"
    /\ writepos' = Inc32(writepos)
    /\ th' = [th EXCEPT ![t].pos = And32(Inc32(writepos), capacity - 1),
                        ![t].pc = "ts_store"]
    /\ UNCHANGED <<capacity, closed, ifree, iused, sizefree, sizeused,
                   readpos, msg, gate, prog, logVars>>

\* pos = fetchadd(&queue->writepos, 1);  pos &= (queue->capacity-1);
TrySend_Ticket(t) ==
    /\ th[t].pc = "ts_ticket"
    /\ writepos' = Inc32(writepos)
    /\ th' = [th EXCEPT ![t].pos = And32(writepos, capacity - 1),
                        ![t].pc = "ts_store"]
    /\ UNCHANGED <<capacity, closed, ifree, iused, sizefree, sizeused,
                   readpos, msg, gate, prog, logVars>>

\* variant of TrySend_Store: the handle is written by a plain store,
\* whatever the cell holds
TrySend_Store_Plain(t) ==
    /\ th[t].pc = "ts_store"
    /\ msg' = [msg EXCEPT ![th[t].pos] = th[t].msg]
    /\ th' = [th EXCEPT ![t].pos = 0, ![t].pc = "ts_commit"]
    /\ UNCHANGED <<capacity, closed, ifree, iused, sizefree, sizeused,
                   writepos, readpos, gate, prog, logVars>>

\* while (0 != cmpxchg(&queue->msg[pos], 0, msg)) ;
\* (a failed cmpxchg changes nothing and is tried again)
TrySend_Store(t) ==
    /\ th[t].pc = "ts_store"
    /\ msg[th[t].pos] = 0
    /\ msg' = [msg EXCEPT ![th[t].pos] = th[t].msg]
    /\ th' = [th EXCEPT ![t].pos = 0, ![t].pc = "ts_commit"]
    /\ UNCHANGED <<capacity, closed, ifree, iused, sizefree, sizeused,
                   writepos, readpos, gate, prog, logVars>>

\* variant of TrySend_Commit: the step also signals the reader gate, as
\* WAKEUP_READER does
TrySend_Commit_Wake(t) ==
    /\ th[t].pc = "ts_commit"
    /\ sizeused' = [sizeused EXCEPT ![th[t].idx] = Inc32(@)]
    /\ sent' = Append(sent, th[t].msg)
    /\ LET g == "reader"
       IN  IF gate[g].signalcount # 0 /\ gate[g].lock = 0
           THEN \E w \in (IF gate[g].cond = {} THEN {0} ELSE gate[g].cond) :
                  /\ gate' = [gate EXCEPT ![g].signalcount = @ - 1,
                                          ![g].cond = @ \ {w}]
                  /\ th' = Release({w}, t, AfterTry(th[t], "OK"))
           ELSE /\ th' = [th EXCEPT ![t] = AfterTry(th[t], "OK")]
                /\ UNCHANGED gate
    /\ UNCHANGED <<capacity, closed, ifree, iused, sizefree, writepos,
                   readpos, msg, prog, recvd, closeRet, spurious>>

\* variant of TrySend_Commit: the unit is added to the next shard of
\* sizeused[]
TrySend_Commit_NextShard(t) ==
    /\ th[t].pc = "ts_commit"
    /\ sizeused' = [sizeused EXCEPT
                       ![And32(th[t].idx + 1, NROFSIZE - 1)] = Inc32(@)]
    /\ th' = [th EXCEPT ![t] = AfterTry(th[t], "OK")]
    /\ sent' = Append(sent, th[t].msg)
    /\ UNCHANGED <<capacity, closed, ifree, iused, sizefree, writepos,
                   readpos, msg, gate, prog, recvd, closeRet, spurious>>

\* fetchadd(&queue->sizeused[ifree], 1);  return 0;
TrySend_Commit(t) ==
    /\ th[t].pc = "ts_commit"
    /\ sizeused' = [sizeused EXCEPT ![th[t].idx] = Inc32(@)]
    /\ th' = [th EXCEPT ![t] = AfterTry(th[t], "OK")]
    /\ sent' = Append(sent, th[t].msg)
    /\ UNCHANGED <<capacity, closed, ifree, iused, sizefree, writepos,
                   readpos, msg, gate, prog, recvd, closeRet, spurious>>

\* ------------------------------------------- tryrecv_iqueue (MPMC)

\* iused = queue->iused;
TryRecv_ReadIused(t) ==
    /\ th[t].pc = "tr0"
    /\ th' = [th EXCEPT ![t].idx = iused, ![t].pc = "tr_closed"]
    /\ UNCHANGED <<ringVars, gate, prog, logVars>>

\* variant of TryRecv_Closed: closed is not tested
TryRecv_Closed_Ignore(t) ==
    /\ th[t].pc = "tr_closed"
    /\ th' = [th EXCEPT ![t].pc = "tr_reserve"]
    /\ UNCHANGED <<ringVars, gate, prog, logVars>>

\* if (queue->closed) return EPIPE;
TryRecv_Closed(t) ==
    /\ th[t].pc = "tr_closed"
    /\ th' = [th EXCEPT ![t] =
                IF closed # 0 THEN AfterTry(th[t], "EPIPE")
                ELSE [th[t] EXCEPT !.pc = "tr_reserve"]]
    /\ UNCHANGED <<ringVars, gate, prog, logVars>>

\* sizeused = fetchadd(&queue->sizeused[iused], -1) - 1;
\* if (sizeused < queue->capacity) break;
TryRecv_Reserve(t) ==
    /\ th[t].pc = "tr_reserve"
    /\ sizeused' = [sizeused EXCEPT ![th[t].idx] = Dec32(@)]
    /\ th' = [th EXCEPT ![t] =
                IF Below32(Dec32(sizeused[th[t].idx]), capacity)
                THEN [th[t] EXCEPT !.i = 0, !.pc = "tr_ticket"]
                ELSE [th[t] EXCEPT !.pc = "tr_undo"]]
    /\ UNCHANGED <<capacity, closed, ifree, iused, sizefree, writepos,
                   readpos, msg, gate, prog, logVars>>

\* variant of TryRecv_Undo: the failed reservation is not added back
TryRecv_Undo_Skip(t) ==
    /\ th[t].pc = "tr_undo"
    /\ th' = [th EXCEPT ![t].pc = "tr_rotate"]
    /\ UNCHANGED <<ringVars, gate, prog, logVars>>

\* fetchadd(&queue->sizeused[iused], 1);
TryRecv_Undo(t) ==
    /\ th[t].pc = "tr_undo"
    /\ sizeused' = [sizeused EXCEPT ![th[t].idx] = Inc32(@)]
    /\ th' = [th EXCEPT ![t].pc = "tr_rotate"]
    /\ UNCHANGED <<capacity, closed, ifree, iused, sizefree, writepos,
                   readpos, msg, gate, prog, logVars>>

\* variant of TryRecv_Rotate: EAGAIN after one attempt more
TryRecv_Rotate_Extra(t) ==
    /\ th[t].pc = "tr_rotate"
    /\ iused' = IF iused = th[t].idx
                THEN And32(th[t].idx + 1, NROFSIZE - 1) ELSE iused
    /\ th' = [th EXCEPT ![t] =
                IF th[t].i = NROFSIZE THEN AfterTry(th[t], "EAGAIN")
                ELSE [th[t] EXCEPT !.i = @ + 1, !.pc = "tr0"]]
    /\ UNCHANGED <<capacity, closed, ifree, sizefree, sizeused, writepos,
                   readpos, msg, gate, prog, logVars>>

\* cmpxchg(&queue->iused, iused, (iused+1) & (NROFSIZE-1));
\* if (i == NROFSIZE-1) return EAGAIN;   ++i
TryRecv_Rotate(t) ==
    /\ th[t].pc = "tr_rotate"
    /\ iused' = IF iused = th[t].idx
                THEN And32(th[t].idx + 1, NROFSIZE - 1) ELSE iused
    /\ th' = [th EXCEPT ![t] =
                IF th[t].i = NROFSIZE - 1 THEN AfterTry(th[t], "EAGAIN")
                ELSE [th[t] EXCEPT !.i = @ + 1, !.pc = "tr0"]]
    /\ UNCHANGED <<capacity, closed, ifree, sizefree, sizeused, writepos,
                   readpos, msg, gate, prog, logVars>>

\* variant of TryRecv_Ticket: the ticket is drawn twice
TryRecv_Ticket_Twice(t) ==
    /\ th[t].pc = "tr_ticket"
    /\ readpos' = Inc32(Inc32(readpos))
    /\ th' = [th EXCEPT ![t].pos = And32(Inc32(readpos), capacity - 1),
                        ![t].pc = "tr_fetch"]
    /\ UNCHANGED <<capacity, closed, ifree, iused, sizefree, sizeused,
                   writepos, msg, gate, prog, logVars>>

\* pos = fetchadd(&queue->readpos, 1);  pos &= (queue->capacity-1);
TryRecv_Ticket(t) ==
    /\ th[t].pc = "tr_ticket"
    /\ readpos' = Inc32(readpos)
    /\ th' = [th EXCEPT ![t].pos = And32(readpos, capacity - 1),
                        ![t].pc = "tr_fetch"]
    /\ UNCHANGED <<capacity, closed, ifree, iused, sizefree, sizeused,
                   writepos, msg, gate, prog, logVars>>

\* fetchedmsg = queue->msg[pos];
\* (reading 0 makes the cmpxchg of 0 by 0 and the loop starts again:
\* nothing changes until the cell holds a handle)
TryRecv_Fetch(t) ==
    /\ th[t].pc = "tr_fetch"
    /\ msg[th[t].pos] # 0
    /\ th' = [th EXCEPT ![t].fetched = msg[th[t].pos], ![t].pc = "tr_take"]
    /\ UNCHANGED <<ringVars, gate, prog, logVars>>

\* variant of TryRecv_Take: the cell is cleared by a plain store, the
\* handle fetched before is returned whatever the cell holds by now
TryRecv_Take_NoCas(t) ==
    /\ th[t].pc = "tr_take"
    /\ msg' = [msg EXCEPT ![th[t].pos] = 0]
    /\ recvd' = Append(recvd, th[t].fetched)
    /\ th' = [th EXCEPT ![t].msg = th[t].fetched,
                        ![t].fetched = 0, ![t].pos = 0,
                        ![t].pc = "tr_commit"]
    /\ UNCHANGED <<capacity, closed, ifree, iused, sizefree, sizeused,
                   writepos, readpos, gate, prog, sent, closeRet, spurious>>

\* variant of TryRecv_Take: the handle is returned and the cell keeps it
TryRecv_Take_NoClear(t) ==
    /\ th[t].pc = "tr_take"
    /\ recvd' = Append(recvd, th[t].fetched)
    /\ th' = [th EXCEPT ![t].msg = th[t].fetched,
                        ![t].fetched = 0, ![t].pos = 0,
                        ![t].pc = "tr_commit"]
    /\ UNCHANGED <<capacity, closed, ifree, iused, sizefree, sizeused,
                   writepos, readpos, msg, gate, prog, sent, closeRet,
                   spurious>>

\* while (fetchedmsg != cmpxchg(&queue->msg[pos], fetchedmsg, 0) ...);
\* *msg = fetchedmsg;
TryRecv_Take(t) ==
    /\ th[t].pc = "tr_take"
    /\ IF msg[th[t].pos] = th[t].fetched
       THEN /\ msg' = [msg EXCEPT ![th[t].pos] = 0]
            /\ recvd' = Append(recvd, th[t].fetched)
            /\ th' = [th EXCEPT ![t].msg = th[t].fetched,
                                ![t].fetched = 0, ![t].pos = 0,
                                ![t].pc = "tr_commit"]
       ELSE /\ th' = [th EXCEPT ![t].fetched = 0, ![t].pc = "tr_fetch"]
            /\ UNCHANGED <<msg, recvd>>
    /\ UNCHANGED <<capacity, closed, ifree, iused, sizefree, sizeused,
                   writepos, readpos, gate, prog, sent, closeRet, spurious>>

\* variant of TryRecv_Commit: the step also signals the writer gate, as
\* WAKEUP_WRITER does
TryRecv_Commit_Wake(t) ==
    /\ th[t].pc = "tr_commit"
    /\ sizefree' = [sizefree EXCEPT ![th[t].idx] = Inc32(@)]
    /\ LET g == "writer"
       IN  IF gate[g].signalcount # 0 /\ gate[g].lock = 0
           THEN \E w \in (IF gate[g].cond = {} THEN {0} ELSE gate[g].cond) :
                  /\ gate' = [gate EXCEPT ![g].signalcount = @ - 1,
                                          ![g].cond = @ \ {w}]
                  /\ th' = Release({w}, t, AfterTry(th[t], "OK"))
           ELSE /\ th' = [th EXCEPT ![t] = AfterTry(th[t], "OK")]
                /\ UNCHANGED gate
    /\ UNCHANGED <<capacity, closed, ifree, iused, sizeused, writepos,
                   readpos, msg, prog, logVars>>

\* fetchadd(&queue->sizefree[iused], 1);  return 0;
TryRecv_Commit(t) ==
    /\ th[t].pc = "tr_commit"
    /\ sizefree' = [sizefree EXCEPT ![th[t].idx] = Inc32(@)]
    /\ th' = [th EXCEPT ![t] = AfterTry(th[t], "OK")]
    /\ UNCHANGED <<capacity, closed, ifree, iused, sizeused, writepos,
                   readpos, msg, gate, prog, logVars>>

\* ------------------------------------------ trysend_iqueue1 (SPSC)

\* if (0 == msg) return EINVAL;  if (queue->closed) return EPIPE;
TrySend1_Closed(t) ==
    /\ th[t].pc = "ts1"
    /\ th' = [th EXCEPT ![t] =
                IF th[t].msg = 0 THEN AfterTry(th[t], "EINVAL")
                ELSE IF closed # 0 THEN AfterTry(th[t], "EPIPE")
                ELSE [th[t] EXCEPT !.pc = "ts1_read"]]
    /\ UNCHANGED <<ringVars, gate, prog, logVars>>

\* pos = queue->writepos;  oldpos = pos;
TrySend1_ReadPos(t) ==
    /\ th[t].pc = "ts1_read"
    /\ th' = [th EXCEPT ![t].pos = writepos, ![t].pc = "ts1_write"]
    /\ UNCHANGED <<ringVars, gate, prog, logVars>>

\* ++pos;  if (pos >= queue->capacity) pos = 0;  queue->writepos = pos;
TrySend1_WritePos(t) ==
    /\ th[t].pc = "ts1_write"
    /\ writepos' = IF th[t].pos + 1 >= capacity THEN 0 ELSE th[t].pos + 1
    /\ th' = [th EXCEPT ![t].pc = "ts1_store"]
    /\ UNCHANGED <<capacity, closed, ifree, iused, sizefree, sizeused,
                   readpos, msg, gate, prog, logVars>>

\* if (0 != cmpxchg(&queue->msg[oldpos], 0, msg)) ... else return 0;
TrySend1_Store(t) ==
    /\ th[t].pc = "ts1_store"
    /\ IF msg[th[t].pos] = 0
       THEN /\ msg' = [msg EXCEPT ![th[t].pos] = th[t].msg]
            /\ sent' = Append(sent, th[t].msg)
            /\ th' = [th EXCEPT ![t] = AfterTry(th[t], "OK")]
       ELSE /\ th' = [th EXCEPT ![t].pc = "ts1_rollback"]
            /\ UNCHANGED <<msg, sent>>
    /\ UNCHANGED <<capacity, closed, ifree, iused, sizefree, sizeused,
                   writepos, readpos, gate, prog, recvd, closeRet, spurious>>

\* variant of TrySend1_Rollback: writepos is not restored
TrySend1_Rollback_Keep(t) ==
    /\ th[t].pc = "ts1_rollback"
    /\ th' = [th EXCEPT ![t] = AfterTry(th[t], "EAGAIN")]
    /\ UNCHANGED <<ringVars, gate, prog, logVars>>

\* queue->writepos = oldpos;  return EAGAIN;
TrySend1_Rollback(t) ==
    /\ th[t].pc = "ts1_rollback"
    /\ writepos' = th[t].pos
    /\ th' = [th EXCEPT ![t] = AfterTry(th[t], "EAGAIN")]
    /\ UNCHANGED <<capacity, closed, ifree, iused, sizefree, sizeused,
                   readpos, msg, gate, prog, logVars>>

\* ------------------------------------------ tryrecv_iqueue1 (SPSC)

\* if (queue->closed) return EPIPE;
TryRecv1_Closed(t) ==
    /\ th[t].pc = "tr1"
    /\ th' = [th EXCEPT ![t] =
                IF closed # 0 THEN AfterTry(th[t], "EPIPE")
                ELSE [th[t] EXCEPT !.pc = "tr1_read"]]
    /\ UNCHANGED <<ringVars, gate, prog, logVars>>

\* pos = queue->readpos;  oldpos = pos;
TryRecv1_ReadPos(t) ==
    /\ th[t].pc = "tr1_read"
    /\ th' = [th EXCEPT ![t].pos = readpos, ![t].pc = "tr1_write"]
    /\ UNCHANGED <<ringVars, gate, prog, logVars>>

\* variant of TryRecv1_WritePos: readpos is left where it is
TryRecv1_WritePos_Stay(t) ==
    /\ th[t].pc = "tr1_write"
    /\ th' = [th EXCEPT ![t].pc = "tr1_fetch"]
    /\ UNCHANGED <<ringVars, gate, prog, logVars>>

\* ++pos;  if (pos >= queue->capacity) pos = 0;  queue->readpos = pos;
TryRecv1_WritePos(t) ==
    /\ th[t].pc = "tr1_write"
    /\ readpos' = IF th[t].pos + 1 >= capacity THEN 0 ELSE th[t].pos + 1
    /\ th' = [th EXCEPT ![t].pc = "tr1_fetch"]
    /\ UNCHANGED <<capacity, closed, ifree, iused, sizefree, sizeused,
                   writepos, msg, gate, prog, logVars>>

\* fetchedmsg = queue->msg[oldpos];
TryRecv1_Fetch(t) ==
    /\ th[t].pc = "tr1_fetch"
    /\ th' = [th EXCEPT ![t].fetched = msg[th[t].pos], ![t].pc = "tr1_take"]
    /\ UNCHANGED <<ringVars, gate, prog, logVars>>

\* if (fetchedmsg != cmpxchg(&queue->msg[oldpos], fetchedmsg, 0)
\*     || 0 == fetchedmsg) ... else { *msg = fetchedmsg; return 0; }
TryRecv1_Take(t) ==
    /\ th[t].pc = "tr1_take"
    /\ IF msg[th[t].pos] = th[t].fetched /\ th[t].fetched # 0
       THEN /\ msg' = [msg EXCEPT ![th[t].pos] = 0]
            /\ recvd' = Append(recvd, th[t].fetched)
            /\ th' = [th EXCEPT ![t] =
                        AfterTry([th[t] EXCEPT !.msg = th[t].fetched], "OK")]
       ELSE /\ th' = [th EXCEPT ![t].fetched = 0, ![t].pc = "tr1_rollback"]
            /\ UNCHANGED <<msg, recvd>>
    /\ UNCHANGED <<capacity, closed, ifree, iused, sizefree, sizeused,
                   writepos, readpos, gate, prog, sent, closeRet, spurious>>

\* queue->readpos = oldpos;  return EAGAIN;
TryRecv1_Rollback(t) ==
    /\ th[t].pc = "tr1_rollback"
    /\ readpos' = th[t].pos
    /\ th' = [th EXCEPT ![t] = AfterTry(th[t], "EAGAIN")]
    /\ UNCHANGED <<capacity, closed, ifree, iused, sizefree, sizeused,
                   writepos, msg, gate, prog, logVars>>

\* ------------- trysend_iqueue1, tryrecv_iqueue1 checking the cell first
\* Variants of the two functions that leave writepos / readpos alone until
\* the cmpxchg on the cell has succeeded.  The logs are written in the
\* step in which the call returns.

\* variant of TrySend1_WritePos: ++pos is kept in a local variable
TrySend1_WritePos_CheckFirst(t) ==
    /\ th[t].pc = "ts1_write"
    /\ th' = [th EXCEPT ![t].pc = "ts1_store"]
    /\ UNCHANGED <<ringVars, gate, prog, logVars>>

\* variant of TrySend1_Store: a failed cmpxchg returns EAGAIN at once
TrySend1_Store_CheckFirst(t) ==
    /\ th[t].pc = "ts1_store"
    /\ IF msg[th[t].pos] = 0
       THEN /\ msg' = [msg EXCEPT ![th[t].pos] = th[t].msg]
            /\ th' = [th EXCEPT ![t].pc = "ts1_advance"]
       ELSE /\ th' = [th EXCEPT ![t] = AfterTry(th[t], "EAGAIN")]
            /\ UNCHANGED msg
    /\ UNCHANGED <<capacity, closed, ifree, iused, sizefree, sizeused,
                   writepos, readpos, gate, prog, logVars>>

\* variant: queue->writepos = pos after the handle is stored;  return 0
TrySend1_Advance_CheckFirst(t) ==
    /\ th[t].pc = "ts1_advance"
    /\ writepos' = IF th[t].pos + 1 >= capacity THEN 0 ELSE th[t].pos + 1
    /\ sent' = Append(sent, th[t].msg)
    /\ th' = [th EXCEPT ![t] = AfterTry(th[t], "OK")]
    /\ UNCHANGED <<capacity, closed, ifree, iused, sizefree, sizeused,
                   readpos, msg, gate, prog, recvd, closeRet, spurious>>

\* variant of TryRecv1_WritePos: ++pos is kept in a local variable
TryRecv1_WritePos_CheckFirst(t) ==
    /\ th[t].pc = "tr1_write"
    /\ th' = [th EXCEPT ![t].pc = "tr1_fetch"]
    /\ UNCHANGED <<ringVars, gate, prog, logVars>>

\* variant of TryRecv1_Take: a failed cmpxchg or an empty cell returns
\* EAGAIN at once
TryRecv1_Take_CheckFirst(t) ==
    /\ th[t].pc = "tr1_take"
    /\ IF msg[th[t].pos] = th[t].fetched /\ th[t].fetched # 0
       THEN /\ msg' = [msg EXCEPT ![th[t].pos] = 0]
            /\ th' = [th EXCEPT ![t].msg = th[t].fetched,
                                ![t].pc = "tr1_advance"]
       ELSE /\ th' = [th EXCEPT ![t] = AfterTry(th[t], "EAGAIN")]
            /\ UNCHANGED msg
    /\ UNCHANGED <<capacity, closed, ifree, iused, sizefree, sizeused,
                   writepos, readpos, gate, prog, logVars>>

\* variant: queue->readpos = pos after the handle is taken;  return 0
TryRecv1_Advance_CheckFirst(t) ==
    /\ th[t].pc = "tr1_advance"
    /\ readpos' = IF th[t].pos + 1 >= capacity THEN 0 ELSE th[t].pos + 1
    /\ recvd' = Append(recvd, th[t].msg)
    /\ th' = [th EXCEPT ![t] = AfterTry(th[t], "OK")]
    /\ UNCHANGED <<capacity, closed, ifree, iused, sizefree, sizeused,
                   writepos, msg, gate, prog, sent, closeRet, spurious>>

\* ------------------------------------------------ gates (slow path)

\* WAKEUP_READER / WAKEUP_WRITER: if (!err && queue-><g>.signalcount)
\* (err is 0 here, see AfterTry; signalcount is read without the mutex)
WakeupTest(t, g) ==
    /\ th[t].pc = "wake"
    /\ th' = [th EXCEPT ![t].pc =
                IF gate[g].signalcount # 0 THEN "wake2" ELSE "ret"]
    /\ UNCHANGED <<ringVars, gate, prog, logVars>>

\* variant of WakeupSignal: pthread_cond_broadcast in place of
\* pthread_cond_signal
WakeupSignal_Broadcast(t, g) ==
    /\ th[t].pc = "wake2"
    /\ gate[g].lock = 0
    /\ IF gate[g].signalcount # 0
       THEN /\ gate' = [gate EXCEPT ![g].signalcount = @ - 1,
                                    ![g].cond = {}]
            /\ th' = Release(gate[g].cond, t, [th[t] EXCEPT !.pc = "ret"])
       ELSE /\ th' = [th EXCEPT ![t].pc = "ret"]
            /\ UNCHANGED gate
    /\ UNCHANGED <<ringVars, prog, logVars>>

\* WAKEUP_READER / WAKEUP_WRITER: lock; if (signalcount) { --signalcount;
\* pthread_cond_signal } unlock.  pthread_cond_signal releases one of the
\* threads blocked on cond, if there is one.
WakeupSignal(t, g) ==
    /\ th[t].pc = "wake2"
    /\ gate[g].lock = 0
    /\ IF gate[g].signalcount # 0
       THEN \E w \in (IF gate[g].cond = {} THEN {0} ELSE gate[g].cond) :
              /\ gate' = [gate EXCEPT ![g].signalcount = @ - 1,
                                      ![g].cond = @ \ {w}]
              /\ th' = Release({w}, t, [th[t] EXCEPT !.pc = "ret"])
       ELSE /\ th' = [th EXCEPT ![t].pc = "ret"]
            /\ UNCHANGED gate
    /\ UNCHANGED <<ringVars, prog, logVars>>

\* variant of SlowLock: the mutex is taken, waitcount is left as it is
SlowLock_NoCount(t, g) ==
    /\ th[t].pc = "slowlock"
    /\ gate[g].lock = 0
    /\ gate' = [gate EXCEPT ![g].lock = t]
    /\ th' = [th EXCEPT ![t].slow = TRUE, ![t].i = 0,
                        ![t].pc = StartPc(th[t].op)]
    /\ UNCHANGED <<ringVars, prog, logVars>>

\* if (EAGAIN == err) { pthread_mutex_lock(&queue-><g>.lock);
\* ++ queue-><g>.waitcount;  for (;;) { err = try...
SlowLock(t, g) ==
    /\ th[t].pc = "slowlock"
    /\ gate[g].lock = 0
    /\ gate' = [gate EXCEPT ![g].lock = t, ![g].waitcount = @ + 1]
    /\ th' = [th EXCEPT ![t].slow = TRUE, ![t].i = 0,
                        ![t].pc = StartPc(th[t].op)]
    /\ UNCHANGED <<ringVars, prog, logVars>>

\* ++ queue-><g>.signalcount;  pthread_cond_wait(&cond, &lock): the mutex
\* is released and the thread blocks on cond in one step
Park(t, g) ==
    /\ th[t].pc = "park"
    /\ gate' = [gate EXCEPT ![g].signalcount = @ + 1,
                            ![g].lock = 0,
                            ![g].cond = @ \cup {t}]
    /\ th' = [th EXCEPT ![t].pc = "blocked"]
    /\ UNCHANGED <<ringVars, prog, logVars>>

\* variant of Relock: the call does not try again after pthread_cond_wait
\* has returned but leaves the loop as if its try had succeeded
Relock_NoRetry(t, g) ==
    /\ th[t].pc = "relock"
    /\ gate[g].lock = 0
    /\ gate' = [gate EXCEPT ![g].lock = t]
    /\ th' = [th EXCEPT ![t].i = 0, ![t].err = "OK", ![t].pc = "leave"]
    /\ UNCHANGED <<ringVars, prog, logVars>>

\* pthread_cond_wait returns with the mutex held; the loop tries again
Relock(t, g) ==
    /\ th[t].pc = "relock"
    /\ gate[g].lock = 0
    /\ gate' = [gate EXCEPT ![g].lock = t]
    /\ th' = [th EXCEPT ![t].i = 0,
                        ![t].pc = StartPc(th[t].op)]
    /\ UNCHANGED <<ringVars, prog, logVars>>

\* -- queue-><g>.waitcount;  pthread_mutex_unlock;  return err;
Leave(t, g) ==
    /\ th[t].pc = "leave"
    /\ gate' = [gate EXCEPT ![g].waitcount = @ - 1, ![g].lock = 0]
    /\ th' = [th EXCEPT ![t].slow = FALSE, ![t].pc = "ret"]
    /\ UNCHANGED <<ringVars, prog, logVars>>

\* pthread_cond_wait may return without a signal (POSIX spurious wakeup)
SpuriousWakeup(t) ==
    /\ th[t].pc = "blocked"
    /\ t \in gate[Own(th[t].op)].cond
    /\ spurious < MaxSpurious
    /\ spurious' = spurious + 1
    /\ gate' = [gate EXCEPT ![Own(th[t].op)].cond = @ \ {t}]
    /\ th' = [th EXCEPT ![t].pc = "relock"]
    /\ UNCHANGED <<ringVars, prog, sent, recvd, closeRet>>

\* ------------------------------------------- send_iqueue, recv_iqueue

Send_WakeupTest(t) == th[t].op = "send" /\ WakeupTest(t, "reader")

Send_WakeupSignal(t) == th[t].op = "send" /\ WakeupSignal(t, "reader")

Send_SlowLock(t) == th[t].op = "send" /\ SlowLock(t, "writer")

Send_Park(t) == th[t].op = "send" /\ Park(t, "writer")

Send_Relock(t) == th[t].op = "send" /\ Relock(t, "writer")

Send_Leave(t) == th[t].op = "send" /\ Leave(t, "writer")

Recv_WakeupTest(t) == th[t].op = "recv" /\ WakeupTest(t, "writer")

Recv_WakeupSignal(t) == th[t].op = "recv" /\ WakeupSignal(t, "writer")

Recv_SlowLock(t) == th[t].op = "recv" /\ SlowLock(t, "reader")

Recv_Park(t) == th[t].op = "recv" /\ Park(t, "reader")

Recv_Relock(t) == th[t].op = "recv" /\ Relock(t, "reader")

Recv_Leave(t) == th[t].op = "recv" /\ Leave(t, "reader")

\* ----------------------------------------- send_iqueue1, recv_iqueue1

Send1_WakeupTest(t) == th[t].op = "send1" /\ WakeupTest(t, "reader")

Send1_WakeupSignal(t) == th[t].op = "send1" /\ WakeupSignal(t, "reader")

Send1_SlowLock(t) == th[t].op = "send1" /\ SlowLock(t, "writer")

Send1_Park(t) == th[t].op = "send1" /\ Park(t, "writer")

Send1_Relock(t) == th[t].op = "send1" /\ Relock(t, "writer")

Send1_Leave(t) == th[t].op = "send1" /\ Leave(t, "writer")

Recv1_WakeupTest(t) == th[t].op = "recv1" /\ WakeupTest(t, "writer")

Recv1_WakeupSignal(t) == th[t].op = "recv1" /\ WakeupSignal(t, "writer")

Recv1_SlowLock(t) == th[t].op = "recv1" /\ SlowLock(t, "reader")

Recv1_Park(t) == th[t].op = "recv1" /\ Park(t, "reader")

Recv1_Relock(t) == th[t].op = "recv1" /\ Relock(t, "reader")

Recv1_Leave(t) == th[t].op = "recv1" /\ Leave(t, "reader")

\* ------------------------------------- close_iqueue, close_iqueue1
\* (the two functions have the same body)

\* variant of LockReader: close takes the writer mutex first
LockReader_WriterFirst(t) ==
    /\ th[t].pc = "c_lockr"
    /\ gate["writer"].lock = 0
    /\ gate' = [gate EXCEPT !["writer"].lock = t]
    /\ th' = [th EXCEPT ![t].pc = "c_lockw"]
    /\ UNCHANGED <<ringVars, prog, logVars>>

\* pthread_mutex_lock(&queue->reader.lock);
LockReader(t) ==
    /\ th[t].pc = "c_lockr"
    /\ gate["reader"].lock = 0
    /\ gate' = [gate EXCEPT !["reader"].lock = t]
    /\ th' = [th EXCEPT ![t].pc = "c_lockw"]
    /\ UNCHANGED <<ringVars, prog, logVars>>

\* variant of SetClosed: the flag is left as it is
SetClosed_Not(t) ==
    /\ th[t].pc = "c_lockw"
    /\ gate["writer"].lock = 0
    /\ gate' = [gate EXCEPT !["reader"].lock = 0]
    /\ th' = [th EXCEPT ![t].pc = "c_pollr"]
    /\ UNCHANGED <<ringVars, prog, logVars>>

\* variant of SetClosed: the flag is inverted instead of set
SetClosed_Toggle(t) ==
    /\ th[t].pc = "c_lockw"
    /\ gate["writer"].lock = 0
    /\ closed' = 1 - closed
    /\ gate' = [gate EXCEPT !["reader"].lock = 0]
    /\ th' = [th EXCEPT ![t].pc = "c_pollr"]
    /\ UNCHANGED <<capacity, ifree, iused, sizefree, sizeused, writepos,
                   readpos, msg, prog, logVars>>

\* pthread_mutex_lock(&queue->writer.lock);  queue->closed = 1;
\* pthread_mutex_unlock(writer);  pthread_mutex_unlock(reader);
SetClosed(t) ==
    /\ th[t].pc = "c_lockw"
    /\ gate["writer"].lock = 0
    /\ closed' = 1
    /\ gate' = [gate EXCEPT !["reader"].lock = 0]
    /\ th' = [x \in Threads |->
                IF x = t THEN [th[t] EXCEPT !.pc = "c_pollr"]
                ELSE IF th[x].pc \in {"blocked", "relock"}
                THEN [th[x] EXCEPT !.atset = TRUE]
                ELSE th[x]]
    /\ UNCHANGED <<capacity, ifree, iused, sizefree, sizeused, writepos,
                   readpos, msg, prog, logVars>>

\* variant of PollReader: no pthread_cond_broadcast
PollReader_NoBroadcast(t) ==
    /\ th[t].pc = "c_pollr"
    /\ gate["reader"].lock = 0
    /\ th' = [th EXCEPT ![t].isreader = gate["reader"].waitcount,
                        ![t].pc = "c_pollw"]
    /\ UNCHANGED <<ringVars, gate, prog, logVars>>

\* lock(reader);  pthread_cond_broadcast(&queue->reader.cond);
\* isreader = queue->reader.waitcount;  unlock(reader);
PollReader(t) ==
    /\ th[t].pc = "c_pollr"
    /\ gate["reader"].lock = 0
    /\ gate' = [gate EXCEPT !["reader"].cond = {}]
    /\ th' = Release(gate["reader"].cond, t,
                     [th[t] EXCEPT !.isreader = gate["reader"].waitcount,
                                   !.pc = "c_pollw"])
    /\ UNCHANGED <<ringVars, prog, logVars>>

\* variant of PollWriter: close returns after its first round whatever
\* the two waitcounts are
PollWriter_NoWait(t) ==
    /\ th[t].pc = "c_pollw"
    /\ gate["writer"].lock = 0
    /\ gate' = [gate EXCEPT !["writer"].cond = {}]
    /\ th' = Release(gate["writer"].cond, t,
                     [th[t] EXCEPT !.isreader = 0, !.pc = "ret"])
    /\ closeRet' = closeRet + 1
    /\ UNCHANGED <<ringVars, prog, sent, recvd, spurious>>

\* lock(writer);  pthread_cond_broadcast(&queue->writer.cond);
\* iswriter = queue->writer.waitcount;  unlock(writer);
\* if (!isreader && !iswriter) break;  sched_yield();
PollWriter(t) ==
    /\ th[t].pc = "c_pollw"
    /\ gate["writer"].lock = 0
    /\ gate' = [gate EXCEPT !["writer"].cond = {}]
    /\ LET done == th[t].isreader = 0 /\ gate["writer"].waitcount = 0
       IN  /\ th' = Release(gate["writer"].cond, t,
                            [th[t] EXCEPT !.isreader = 0,
                                          !.pc = IF done THEN "ret"
                                                 ELSE "c_pollr"])
           /\ closeRet' = IF done THEN closeRet + 1 ELSE closeRet
    /\ UNCHANGED <<ringVars, prog, sent, recvd, spurious>>

Close_LockReader(t) == th[t].op = "close" /\ LockReader(t)

Close_SetClosed(t) == th[t].op = "close" /\ SetClosed(t)

Close_PollReader(t) == th[t].op = "close" /\ PollReader(t)

Close_PollWriter(t) == th[t].op = "close" /\ PollWriter(t)

Close1_LockReader(t) == th[t].op = "close1" /\ LockReader(t)

Close1_SetClosed(t) == th[t].op = "close1" /\ SetClosed(t)

Close1_PollReader(t) == th[t].op = "close1" /\ PollReader(t)

Close1_PollWriter(t) == th[t].op = "close1" /\ PollWriter(t)

\* ------------------------------------------ size_iqueue, size_iqueue1

\* variant of Size_ReadShard: every counter is added as it was read and the
\* sum is returned as it is
Size_ReadShard_Raw(t) ==
    /\ th[t].pc = "sz"
    /\ th' = [th EXCEPT ![t].size = @ + sizeused[th[t].i],
                        ![t].i = IF th[t].i = NROFSIZE - 1 THEN 0 ELSE @ + 1,
                        ![t].pc = IF th[t].i = NROFSIZE - 1
                                  THEN "ret" ELSE "sz"]
    /\ UNCHANGED <<ringVars, gate, prog, logVars>>

\* variant of Size_ReadShard: the sum is returned without the clamp
Size_ReadShard_NoClamp(t) ==
    /\ th[t].pc = "sz"
    /\ LET used == sizeused[th[t].i]
           size == th[t].size + (IF Below32(used, capacity) THEN used ELSE 0)
       IN  th' = [th EXCEPT ![t] =
                    IF th[t].i = NROFSIZE - 1
                    THEN [@ EXCEPT !.size = size, !.i = 0, !.pc = "ret"]
                    ELSE [@ EXCEPT !.size = size, !.i = @ + 1]]
    /\ UNCHANGED <<ringVars, gate, prog, logVars>>

\* one iteration of the loop of size_iqueue:
\*   sizeused = cmpxchg(&queue->sizeused[i], 0, 0);
\*   size += (sizeused < queue->capacity ? sizeused : 0);
\* and after the last one
\*   return size <= queue->capacity ? size : queue->capacity;
\* (the sum of NROFSIZE values below capacity does not wrap)
Size_ReadShard(t) ==
    /\ th[t].pc = "sz"
    /\ LET used == sizeused[th[t].i]
           size == th[t].size + (IF Below32(used, capacity) THEN used ELSE 0)
       IN  th' = [th EXCEPT ![t] =
                    IF th[t].i = NROFSIZE - 1
                    THEN [@ EXCEPT !.size = IF size <= capacity
                                            THEN size ELSE capacity,
                                   !.i = 0, !.pc = "ret"]
                    ELSE [@ EXCEPT !.size = size, !.i = @ + 1]]
    /\ UNCHANGED <<ringVars, gate, prog, logVars>>

\* size_iqueue1: rpos = cmpxchg(&queue->readpos, 0, 0);
Size1_ReadPos(t) ==
    /\ th[t].pc = "sz1"
    /\ th' = [th EXCEPT ![t].rpos = readpos, ![t].pc = "sz1_wpos"]
    /\ UNCHANGED <<ringVars, gate, prog, logVars>>

\* variant of Size1_WritePos: with readpos above writepos the distance
\* between the two is returned
Size1_WritePos_Free(t) ==
    /\ th[t].pc = "sz1_wpos"
    /\ LET rpos == th[t].rpos
           wpos == writepos
       IN  th' = [th EXCEPT ![t] =
                    IF rpos < wpos
                    THEN [@ EXCEPT !.size = wpos - rpos, !.rpos = 0,
                                   !.pc = "ret"]
                    ELSE IF rpos - wpos # 0
                    THEN [@ EXCEPT !.size = rpos - wpos,
                                   !.rpos = 0, !.pc = "ret"]
                    ELSE [@ EXCEPT !.wpos = wpos, !.rpos = 0,
                                   !.pc = "sz1_cell"]]
    /\ UNCHANGED <<ringVars, gate, prog, logVars>>

\* wpos = cmpxchg(&queue->writepos, 0, 0);
\* if (rpos < wpos) return wpos - rpos;  free = rpos - wpos;
\* free != 0: return queue->capacity - free;
Size1_WritePos(t) ==
    /\ th[t].pc = "sz1_wpos"
    /\ LET rpos == th[t].rpos
           wpos == writepos
       IN  th' = [th EXCEPT ![t] =
                    IF rpos < wpos
                    THEN [@ EXCEPT !.size = wpos - rpos, !.rpos = 0,
                                   !.pc = "ret"]
                    ELSE IF rpos - wpos # 0
                    THEN [@ EXCEPT !.size = capacity - (rpos - wpos),
                                   !.rpos = 0, !.pc = "ret"]
                    ELSE [@ EXCEPT !.wpos = wpos, !.rpos = 0,
                                   !.pc = "sz1_cell"]]
    /\ UNCHANGED <<ringVars, gate, prog, logVars>>

\* free == 0:
\* return 0 == queue->msg[wpos == 0 ? queue->capacity-1 : wpos-1]
\*        ? 0 : queue->capacity;
Size1_Cell(t) ==
    /\ th[t].pc = "sz1_cell"
    /\ LET last == IF th[t].wpos = 0 THEN capacity - 1 ELSE th[t].wpos - 1
       IN  th' = [th EXCEPT ![t].size = IF msg[last] = 0 THEN 0 ELSE capacity,
                           ![t].wpos = 0,
                           ![t].pc = "ret"]
    /\ UNCHANGED <<ringVars, gate, prog, logVars>>

\* ------------------------------------------------- specifications

\* the program of a thread that makes n calls, each one of ops
Role(ops, n) == [k \in 1 .. n |-> ops]

Producers == {"send", "trysend"}

Consumers == {"recv", "tryrecv"}

InitLogs(k) ==
    /\ th = [t \in Threads |-> IdleThread]
    /\ sent = [n \in 1 .. k |-> n]
    /\ recvd = << >>
    /\ closeRet = 0
    /\ spurious = 0

TrySend(t) ==
    \/ TrySend_ReadIfree(t)
    \/ TrySend_Closed(t)
    \/ TrySend_Reserve(t)
    \/ TrySend_Undo(t)
    \/ TrySend_Rotate(t)
    \/ TrySend_Ticket(t)
    \/ TrySend_Store(t)
    \/ TrySend_Commit(t)

TryRecv(t) ==
    \/ TryRecv_ReadIused(t)
    \/ TryRecv_Closed(t)
    \/ TryRecv_Reserve(t)
    \/ TryRecv_Undo(t)
    \/ TryRecv_Rotate(t)
    \/ TryRecv_Ticket(t)
    \/ TryRecv_Fetch(t)
    \/ TryRecv_Take(t)
    \/ TryRecv_Commit(t)

Send(t) ==
    \/ Send_WakeupTest(t)
    \/ Send_WakeupSignal(t)
    \/ Send_SlowLock(t)
    \/ Send_Park(t)
    \/ Send_Relock(t)
    \/ Send_Leave(t)

Recv(t) ==
    \/ Recv_WakeupTest(t)
    \/ Recv_WakeupSignal(t)
    \/ Recv_SlowLock(t)
    \/ Recv_Park(t)
    \/ Recv_Relock(t)
    \/ Recv_Leave(t)

Close(t) ==
    \/ Close_LockReader(t)
    \/ Close_SetClosed(t)
    \/ Close_PollReader(t)
    \/ Close_PollWriter(t)

\* MPMC queue without close.  The runs:
\*  - one producer and the other threads consumers, mixing the blocking
\*    and the non-blocking calls;
\*  - two producers and one consumer;
\*  - a full ring of 2*NROFSIZE cells whose first reader and next writer
\*    are overtaken by a third thread that empties and refills the ring.
MixedRun ==
    /\ \E c \in 0 .. MaxReqCapacity : InitQueue(NewQueue(c))
    /\ prog = [t \in Threads |->
                 IF t = 1 THEN Role(Producers, MaxCalls)
                 ELSE Role(Consumers, MaxCalls - 1)]
    /\ InitLogs(0)

OneConsumerRun ==
    /\ \E c \in 0 .. MaxReqCapacity : InitQueue(NewQueue(c))
    /\ prog = [t \in Threads |->
                 IF t = 1 THEN Role(Producers, MaxCalls)
                 ELSE IF t = 2 THEN Role({"tryrecv", "recv"}, MaxCalls)
                 ELSE Role({"trysend"}, MaxCalls - 1)]
    /\ InitLogs(0)

OvertakeRun ==
    /\ InitQueue(Filled(NewQueue(2 * NROFSIZE), 2 * NROFSIZE))
    /\ prog = [t \in Threads |->
                 IF t = 1 THEN Role({"tryrecv"}, 1)
                 ELSE IF t = 2 THEN Role({"trysend"}, 1)
                 ELSE IF t = 3
                 THEN Role({"tryrecv"}, 2 * NROFSIZE - 1)
                      \o Role({"trysend"}, 1) \o Role({"tryrecv"}, 1)
                 ELSE << >>]
    /\ InitLogs(2 * NROFSIZE)

Init == MixedRun \/ OneConsumerRun \/ OvertakeRun

Next ==
    \E t \in Threads :
        \/ Call(t)
        \/ TrySend(t)
        \/ TryRecv(t)
        \/ Send(t)
        \/ Recv(t)
        \/ SpuriousWakeup(t)

Spec == Init /\ [][Next]_vars

\* The blocking calls of the MPMC queue, one call per thread:
\*  - thread 1 sends one handle into the empty queue, thread 2 receives;
\*  - the creating thread has filled the ring; thread 1 receives one
\*    handle, thread 2 sends one.
EchoRun ==
    /\ \E c \in 0 .. MaxReqCapacity : InitQueue(NewQueue(c))
    /\ prog = [t \in Threads |->
                 IF t = 1 THEN Role({"send"}, 1)
                 ELSE IF t = 2 THEN Role({"recv"}, 1)
                 ELSE << >>]
    /\ InitLogs(0)

FullRun ==
    /\ \E c \in 0 .. MaxReqCapacity :
         /\ InitQueue(Filled(NewQueue(c), AlignedCapacity(c)))
         /\ InitLogs(AlignedCapacity(c))
    /\ prog = [t \in Threads |->
                 IF t = 1 THEN Role({"recv"}, 1)
                 ELSE IF t = 2 THEN Role({"send"}, 1)
                 ELSE << >>]

InitBlock == EchoRun \/ FullRun

\* a step of thread t other than a spurious wakeup
Step(t) == Call(t) \/ TrySend(t) \/ TryRecv(t) \/ Send(t) \/ Recv(t)

\* every thread that can take a step eventually takes one; a spurious
\* wakeup may happen and need not
FairBlock ==
    InitBlock /\ [][Next]_vars /\ \A t \in Threads : WF_vars(Step(t))

\* ---------------------------------------- specifications (SPSC)

TrySend1(t) ==
    \/ TrySend1_Closed(t)
    \/ TrySend1_ReadPos(t)
    \/ TrySend1_WritePos(t)
    \/ TrySend1_Store(t)
    \/ TrySend1_Rollback(t)

TryRecv1(t) ==
    \/ TryRecv1_Closed(t)
    \/ TryRecv1_ReadPos(t)
    \/ TryRecv1_WritePos(t)
    \/ TryRecv1_Fetch(t)
    \/ TryRecv1_Take(t)
    \/ TryRecv1_Rollback(t)

Send1(t) ==
    \/ Send1_WakeupTest(t)
    \/ Send1_WakeupSignal(t)
    \/ Send1_SlowLock(t)
    \/ Send1_Park(t)
    \/ Send1_Relock(t)
    \/ Send1_Leave(t)

Recv1(t) ==
    \/ Recv1_WakeupTest(t)
    \/ Recv1_WakeupSignal(t)
    \/ Recv1_SlowLock(t)
    \/ Recv1_Park(t)
    \/ Recv1_Relock(t)
    \/ Recv1_Leave(t)

Close1(t) ==
    \/ Close1_LockReader(t)
    \/ Close1_SetClosed(t)
    \/ Close1_PollReader(t)
    \/ Close1_PollWriter(t)

\* SPSC queue without close: thread 1 is the producer, thread 2 the
\* consumer, each making MaxCalls + 1 calls (more than the ring has cells)
Init1 ==
    /\ \E c \in 1 .. MaxReqCapacity : InitQueue(NewQueue1(c))
    /\ prog = [t \in Threads |->
                 IF t = 1 THEN Role({"send1", "trysend1"}, MaxCalls + 1)
                 ELSE IF t = 2
                 THEN Role({"recv1", "tryrecv1"}, MaxCalls + 1)
                 ELSE << >>]
    /\ InitLogs(0)

\* the same with the blocking calls only
InitThroughput1 ==
    /\ \E c \in 1 .. MaxReqCapacity : InitQueue(NewQueue1(c))
    /\ prog = [t \in Threads |->
                 IF t = 1 THEN Role({"send1"}, MaxCalls + 1)
                 ELSE IF t = 2 THEN Role({"recv1"}, MaxCalls + 1)
                 ELSE << >>]
    /\ InitLogs(0)

Next1 ==
    \E t \in Threads :
        \/ Call(t)
        \/ TrySend1(t)
        \/ TryRecv1(t)
        \/ Send1(t)
        \/ Recv1(t)
        \/ SpuriousWakeup(t)

Spec1 == Init1 /\ [][Next1]_vars

SpecThroughput1 == InitThroughput1 /\ [][Next1]_vars

\* the runs of the MPMC queue and of the SPSC queue without close
NextCells == Next \/ Next1

SpecCells == (Init \/ Init1) /\ [][NextCells]_vars

\* ---------------------------------------- specifications (close)

\* the calls a thread makes after its close has returned
LateCalls == {"send", "trysend", "recv", "tryrecv", "send0", "trysend0"}

\* MPMC queue with close.  Thread 3 closes the queue and then makes one
\* more call.  On the empty queue threads 1 and 2 each make one blocking
\* call; on the full queue thread 1 makes one blocking call while thread 2
\* empties the ring with tryrecv (which wakes nobody) and then receives.
\* In place of its blocking call thread 1 may pass the null handle to
\* send_iqueue or trysend_iqueue.
CloseRun ==
    /\ \E k \in {0, AlignedCapacity(MaxReqCapacity)} :
         /\ InitQueue(Filled(NewQueue(MaxReqCapacity), k))
         /\ InitLogs(k)
         /\ prog = [t \in Threads |->
                      IF t = 1
                      THEN Role({"send", "recv", "send0", "trysend0"}, 1)
                      ELSE IF t = 2
                      THEN (IF k = 0 THEN Role({"send", "recv"}, 1)
                            ELSE Role({"tryrecv"}, k) \o Role({"recv"}, 1))
                      ELSE IF t = 3
                      THEN Role({"close"}, 1) \o Role(LateCalls, 1)
                      ELSE << >>]

\* the same, thread 3 making no call after close
UnblockRun ==
    /\ \E k \in {0, AlignedCapacity(MaxReqCapacity)} :
         /\ InitQueue(Filled(NewQueue(MaxReqCapacity), k))
         /\ InitLogs(k)
         /\ prog = [t \in Threads |->
                      IF t = 1 THEN Role({"send", "recv"}, 1)
                      ELSE IF t = 2
                      THEN (IF k = 0 THEN Role({"send", "recv"}, 1)
                            ELSE Role({"tryrecv"}, k) \o Role({"recv"}, 1))
                      ELSE IF t = 3 THEN Role({"close"}, 1)
                      ELSE << >>]

\* SPSC queue with close: thread 1 is the producer, thread 2 the consumer,
\* thread 3 closes the queue
CloseRun1 ==
    /\ \E c \in 1 .. MaxReqCapacity : InitQueue(NewQueue1(c))
    /\ InitLogs(0)
    /\ prog = [t \in Threads |->
                 IF t = 1
                 THEN Role({"send1"}, 1)
                      \o Role({"send1", "trysend1", "send10", "trysend10"}, 1)
                 ELSE IF t = 2
                 THEN Role({"recv1"}, 1) \o Role({"recv1", "tryrecv1"}, 1)
                 ELSE IF t = 3 THEN Role({"close1"}, 1)
                 ELSE << >>]

InitClose == CloseRun \/ CloseRun1

\* a step of thread t other than a spurious wakeup, either queue
StepClose(t) ==
    \/ Step(t)
    \/ Close(t)
    \/ TrySend1(t)
    \/ TryRecv1(t)
    \/ Send1(t)
    \/ Recv1(t)
    \/ Close1(t)

NextClose == \E t \in Threads : StepClose(t) \/ SpuriousWakeup(t)

FairClose ==
    InitClose /\ [][NextClose]_vars
        /\ \A t \in Threads : WF_vars(StepClose(t))

StepUnblock(t) == Step(t) \/ Close(t)

NextUnblock == \E t \in Threads : StepUnblock(t) \/ SpuriousWakeup(t)

FairUnblock ==
    UnblockRun /\ [][NextUnblock]_vars
        /\ \A t \in Threads : WF_vars(StepUnblock(t))

\* MPMC queue closed twice (delete_iqueue closes the queue again): as
\* UnblockRun, thread 3 calling close_iqueue a second time after the first
\* call has returned
RecloseRun ==
    /\ \E k \in {0, AlignedCapacity(MaxReqCapacity)} :
         /\ InitQueue(Filled(NewQueue(MaxReqCapacity), k))
         /\ InitLogs(k)
         /\ prog = [t \in Threads |->
                      IF t = 1 THEN Role({"send", "recv"}, 1)
                      ELSE IF t = 2
                      THEN (IF k = 0 THEN Role({"send", "recv"}, 1)
                            ELSE Role({"tryrecv"}, k) \o Role({"recv"}, 1))
                      ELSE IF t = 3 THEN Role({"close"}, 2)
                      ELSE << >>]

FairReclose ==
    RecloseRun /\ [][NextUnblock]_vars
        /\ \A t \in Threads : WF_vars(StepUnblock(t))

\* ----------------------------------------- specifications (size)

\* Thread 3 queries the size while thread 1 sends and thread 2 receives
\* with the non-blocking calls (more sends than the ring has cells), on
\* the MPMC queue and on the SPSC queue.
SizeRun ==
    /\ \E c \in 0 .. MaxReqCapacity : InitQueue(NewQueue(c))
    /\ prog = [t \in Threads |->
                 IF t = 1 THEN Role({"trysend"}, MaxCalls + 1)
                 ELSE IF t = 2 THEN Role({"tryrecv"}, MaxCalls)
                 ELSE IF t = 3 THEN Role({"size"}, MaxCalls)
                 ELSE << >>]
    /\ InitLogs(0)

SizeRun1 ==
    /\ \E c \in 1 .. MaxReqCapacity : InitQueue(NewQueue1(c))
    /\ prog = [t \in Threads |->
                 IF t = 1 THEN Role({"trysend1"}, MaxCalls + 1)
                 ELSE IF t = 2 THEN Role({"tryrecv1"}, MaxCalls + 1)
                 ELSE IF t = 3 THEN Role({"size1"}, MaxCalls)
                 ELSE << >>]
    /\ InitLogs(0)

NextSize ==
    \E t \in Threads :
        \/ Call(t)
        \/ TrySend(t)
        \/ TryRecv(t)
        \/ TrySend1(t)
        \/ TryRecv1(t)
        \/ Size_ReadShard(t)
        \/ Size1_ReadPos(t)
        \/ Size1_WritePos(t)
        \/ Size1_Cell(t)

SpecSize == (SizeRun \/ SizeRun1) /\ [][NextSize]_vars

\* A new queue of NROFSIZE or 2 * NROFSIZE cells whose shard counters
\* sizeused[] were written over (test_query: 1, capacity, (uint32_t)-1;
\* here also capacity - 1); thread 3 then calls size_iqueue.
QueryRun ==
    /\ \E c \in {MaxReqCapacity, 2 * MaxReqCapacity} :
         \E used \in [Shards -> {0, 1, AlignedCapacity(c) - 1,
                                 AlignedCapacity(c), -1}] :
             InitQueue([NewQueue(c) EXCEPT !.sizeused = used])
    /\ prog = [t \in Threads |->
                 IF t = 3 THEN Role({"size"}, 1) ELSE << >>]
    /\ th = [t \in Threads |-> [IdleThread EXCEPT !.snap = <<0>>]]
    /\ sent = << >>
    /\ recvd = << >>
    /\ closeRet = 0
    /\ spurious = 0

\* as SizeRun, with the record of the size_iqueue calls that run while
\* no other call is in flight
QuietSizeRun ==
    /\ \E c \in {MaxReqCapacity, 2 * MaxReqCapacity} : InitQueue(NewQueue(c))
    /\ prog = [t \in Threads |->
                 IF t = 1 THEN Role({"trysend"}, MaxCalls + 1)
                 ELSE IF t = 2 THEN Role({"tryrecv"}, MaxCalls)
                 ELSE IF t = 3 THEN Role({"size"}, MaxCalls)
                 ELSE << >>]
    /\ th = [t \in Threads |-> [IdleThread EXCEPT !.snap = <<0>>]]
    /\ sent = << >>
    /\ recvd = << >>
    /\ closeRet = 0
    /\ spurious = 0

\* as SizeRun1 (capacities up to MaxReqCapacity + 1), with the record of
\* the size_iqueue1 calls that run while no other call is in flight
QuietSizeRun1 ==
    /\ \E c \in 1 .. MaxReqCapacity + 1 : InitQueue(NewQueue1(c))
    /\ prog = [t \in Threads |->
                 IF t = 1 THEN Role({"trysend1"}, MaxCalls + 1)
                 ELSE IF t = 2 THEN Role({"tryrecv1"}, MaxCalls + 1)
                 ELSE IF t = 3 THEN Role({"size1"}, MaxCalls)
                 ELSE << >>]
    /\ th = [t \in Threads |-> [IdleThread EXCEPT !.snap = <<0>>]]
    /\ sent = << >>
    /\ recvd = << >>
    /\ closeRet = 0
    /\ spurious = 0

SpecQuery ==
    (QueryRun \/ QuietSizeRun \/ QuietSizeRun1) /\ [][NextSize]_vars

\* SPSC queue whose producer (thread 1) and consumer (thread 2) also
\* query the size between their calls, each making MaxCalls + 1 calls
PeerRun ==
    /\ \E c \in 1 .. MaxReqCapacity + 1 : InitQueue(NewQueue1(c))
    /\ prog = [t \in Threads |->
                 IF t = 1 THEN Role({"trysend1", "size1"}, MaxCalls + 1)
                 ELSE IF t = 2 THEN Role({"tryrecv1", "size1"}, MaxCalls + 1)
                 ELSE << >>]
    /\ th = [t \in Threads |->
                [IdleThread EXCEPT !.before = <<0, 0>>, !.snap = <<0>>]]
    /\ sent = << >>
    /\ recvd = << >>
    /\ closeRet = 0
    /\ spurious = 0

NextPeer ==
    \E t \in Threads :
        \/ Call(t)
        \/ TrySend1(t)
        \/ TryRecv1(t)
        \/ Size1_ReadPos(t)
        \/ Size1_WritePos(t)
        \/ Size1_Cell(t)

SpecPeer == PeerRun /\ [][NextPeer]_vars

\* the same run with the variants that check the cell first
NextCheckFirst ==
    \E t \in Threads :
        \/ Call(t)
        \/ TrySend1_Closed(t)
        \/ TrySend1_ReadPos(t)
        \/ TrySend1_WritePos_CheckFirst(t)
        \/ TrySend1_Store_CheckFirst(t)
        \/ TrySend1_Advance_CheckFirst(t)
        \/ TryRecv1_Closed(t)
        \/ TryRecv1_ReadPos(t)
        \/ TryRecv1_WritePos_CheckFirst(t)
        \/ TryRecv1_Fetch(t)
        \/ TryRecv1_Take_CheckFirst(t)
        \/ TryRecv1_Advance_CheckFirst(t)
        \/ Size1_ReadPos(t)
        \/ Size1_WritePos(t)
        \/ Size1_Cell(t)

SpecCheckFirst == PeerRun /\ [][NextCheckFirst]_vars

\* ------------------------------------- specifications (one thread)

\* MPMC queue of NROFSIZE or 2 * NROFSIZE cells used by thread 1 alone
\* with the non-blocking calls, more calls than the ring has cells: no
\* two calls overlap (test_trysend_single, test_tryrecv_single)
SingleRun ==
    /\ \E c \in {MaxReqCapacity, 2 * MaxReqCapacity} : InitQueue(NewQueue(c))
    /\ prog = [t \in Threads |->
                 IF t = 1 THEN Role({"trysend", "tryrecv"}, 2 * MaxCalls + 2)
                 ELSE << >>]
    /\ th = [t \in Threads |-> [IdleThread EXCEPT !.snap = <<0>>]]
    /\ sent = << >>
    /\ recvd = << >>
    /\ closeRet = 0
    /\ spurious = 0

NextSingle == \E t \in Threads : Call(t) \/ TrySend(t) \/ TryRecv(t)

SpecSingle == SingleRun /\ [][NextSingle]_vars

\* MPMC queue of NROFSIZE or 2 * NROFSIZE cells used by threads 1 and 2
\* with the non-blocking calls, in any interleaving.  A call that starts
\* while the other thread is between two calls (or through with its calls)
\* and returns before that thread's next call finds the queue as the
\* overlapping calls before it have left it.
QuietRun ==
    /\ \E c \in {MaxReqCapacity, 2 * MaxReqCapacity} : InitQueue(NewQueue(c))
    /\ prog = [t \in Threads |->
                 IF t = 1 THEN Role({"trysend", "tryrecv"}, MaxCalls + 1)
                 ELSE IF t = 2 THEN Role({"trysend", "tryrecv"}, MaxCalls)
                 ELSE << >>]
    /\ th = [t \in Threads |-> [IdleThread EXCEPT !.snap = <<0>>]]
    /\ sent = << >>
    /\ recvd = << >>
    /\ closeRet = 0
    /\ spurious = 0

SpecQuiet == QuietRun /\ [][NextSingle]_vars

\* MPMC queue whose tickets are about to wrap: writepos and readpos have
\* come to 2^32 - k in earlier use that left the ring empty.  The runs:
\*  - the ring of 2*NROFSIZE cells filled again by the creating thread
\*    (writepos has wrapped, readpos has not) and used as in OvertakeRun;
\*  - the empty ring of NROFSIZE cells with one thread sending and one
\*    receiving.
WrapRun ==
    \E k \in 1 .. 2 :
        \/ /\ InitQueue(Filled([NewQueue(2 * NROFSIZE) EXCEPT
                                    !.writepos = 0 - k, !.readpos = 0 - k],
                                2 * NROFSIZE))
           /\ prog = [t \in Threads |->
                        IF t = 1 THEN Role({"tryrecv"}, 1)
                        ELSE IF t = 2 THEN Role({"trysend"}, 1)
                        ELSE IF t = 3
                        THEN Role({"tryrecv"}, 2 * NROFSIZE - 1)
                             \o Role({"trysend"}, 1) \o Role({"tryrecv"}, 1)
                        ELSE << >>]
           /\ InitLogs(2 * NROFSIZE)
        \/ /\ InitQueue([NewQueue(NROFSIZE) EXCEPT
                             !.writepos = 0 - k, !.readpos = 0 - k])
           /\ prog = [t \in Threads |->
                        IF t = 1 THEN Role({"trysend"}, MaxCalls + 1)
                        ELSE IF t = 2 THEN Role({"tryrecv"}, MaxCalls)
                        ELSE << >>]
           /\ InitLogs(0)

SpecWrap == WrapRun /\ [][NextSingle]_vars

\* the non-blocking calls of the MPMC queue alone, every thread that can
\* take a step eventually taking one: the two threads of QuietRun, and the
\* full ring of OvertakeRun whose threads wait for each other's cells
FairTry ==
    /\ QuietRun \/ OvertakeRun
    /\ [][NextSingle]_vars
    /\ \A t \in Threads : WF_vars(Call(t) \/ TrySend(t) \/ TryRecv(t))

\* ---------------------------------------------------- delete_iqueue

\* variant of Delete_Free: the queue is freed once closed is set, before
\* the waitcounts are polled
Delete_Free_Early(t) ==
    /\ th[t].pc = "c_pollr"
    /\ th' = [th EXCEPT ![t].queue = 0, ![t].pc = "ret"]
    /\ UNCHANGED <<ringVars, gate, prog, logVars>>

\* delete_iqueue after close_iqueue(*queue) has returned:
\* free_iqsignal(writer); free_iqsignal(reader); free(*queue); *queue = 0
Delete_Free(t) ==
    /\ th[t].pc = "ret"
    /\ th[t].queue # 0
    /\ th' = [th EXCEPT ![t].queue = 0]
    /\ UNCHANGED <<ringVars, gate, prog, logVars>>

\* delete_iqueue(&queue) with *queue != 0: the steps of close_iqueue,
\* then the release of the gates and of the memory
Delete(t) ==
    /\ th[t].op = "delete"
    /\ \/ LockReader(t)
       \/ SetClosed(t)
       \/ PollReader(t)
       \/ PollWriter(t)
       \/ Delete_Free(t)

\* A call that is still running when the queue has been freed reads and
\* writes released memory (undefined behaviour): besides continuing on
\* the old contents it may return at any point with any result.
UseAfterFree(t) ==
    /\ \E d \in Threads : th[d].op = "delete" /\ th[d].queue = 0
    /\ th[t].pc # "ret"
    /\ \E e \in {"OK", "EAGAIN", "EPIPE", "EINVAL"} :
         th' = [th EXCEPT ![t].err = e, ![t].pc = "ret"]
    /\ UNCHANGED <<ringVars, gate, prog, logVars>>

\* as UnblockRun, thread 3 calling delete_iqueue (test_close: delete with
\* threads parked in send_iqueue and in recv_iqueue)
DeleteRun ==
    /\ \E k \in {0, AlignedCapacity(MaxReqCapacity)} :
         /\ InitQueue(Filled(NewQueue(MaxReqCapacity), k))
         /\ InitLogs(k)
         /\ prog = [t \in Threads |->
                      IF t = 1 THEN Role({"send", "recv"}, 1)
                      ELSE IF t = 2
                      THEN (IF k = 0 THEN Role({"send", "recv"}, 1)
                            ELSE Role({"tryrecv"}, k) \o Role({"recv"}, 1))
                      ELSE IF t = 3 THEN Role({"delete"}, 1)
                      ELSE << >>]

NextDelete ==
    \E t \in Threads :
        Step(t) \/ Delete(t) \/ SpuriousWakeup(t) \/ UseAfterFree(t)

FairDelete ==
    DeleteRun /\ [][NextDelete]_vars
        /\ \A t \in Threads : WF_vars(Step(t) \/ Delete(t))

\* ------------------------------------------------------- iqsignal_t
\* One iqsignal_t used on its own (gate["signal"]).  Each function runs
\* with signal->lock held from its first to its last access, so a section
\* between two lock operations is one step; pthread_cond_wait ends the
\* first section of wait_iqsignal and starts its second.

\* wait_iqsignal: lock; if (! signalcount) { ++ waitcount;
\* pthread_cond_wait ... } else { unlock; return }
Wait_Lock(t) ==
    /\ th[t].pc = "w_lock"
    /\ gate["signal"].lock = 0
    /\ IF gate["signal"].signalcount = 0
       THEN /\ gate' = [gate EXCEPT !["signal"].waitcount = @ + 1,
                                    !["signal"].cond = @ \cup {t}]
            /\ th' = [th EXCEPT ![t].pc = "blocked"]
       ELSE /\ th' = [th EXCEPT ![t].pc = "ret"]
            /\ UNCHANGED gate
    /\ UNCHANGED <<ringVars, prog, logVars>>

\* variant of Wait_Relock: signalcount is cleared on return
Wait_Relock_Clear(t) ==
    /\ th[t].pc = "relock"
    /\ th[t].op = "wait"
    /\ gate["signal"].lock = 0
    /\ gate' = [gate EXCEPT !["signal"].waitcount = @ - 1,
                            !["signal"].signalcount = 0]
    /\ th' = [th EXCEPT ![t].pc = "ret"]
    /\ UNCHANGED <<ringVars, prog, logVars>>

\* wait_iqsignal: pthread_cond_wait returns with the mutex held;
\* -- waitcount; unlock; return  (signalcount is not read again)
Wait_Relock(t) ==
    /\ th[t].pc = "relock"
    /\ th[t].op = "wait"
    /\ gate["signal"].lock = 0
    /\ gate' = [gate EXCEPT !["signal"].waitcount = @ - 1]
    /\ th' = [th EXCEPT ![t].pc = "ret"]
    /\ UNCHANGED <<ringVars, prog, logVars>>

\* variant of Signal_Iqsignal: pthread_cond_signal in place of
\* pthread_cond_broadcast
Signal_Iqsignal_One(t) ==
    /\ th[t].pc = "sg_lock"
    /\ gate["signal"].lock = 0
    /\ \E w \in (IF gate["signal"].cond = {} THEN {0}
                 ELSE gate["signal"].cond) :
         /\ gate' = [gate EXCEPT !["signal"].signalcount = @ + 1,
                                 !["signal"].cond = @ \ {w}]
         /\ th' = Release({w}, t, [th[t] EXCEPT !.pc = "ret"])
    /\ sent' = Append(sent, 1)
    /\ UNCHANGED <<ringVars, prog, recvd, closeRet, spurious>>

\* signal_iqsignal: lock; ++ signalcount; pthread_cond_broadcast; unlock
Signal_Iqsignal(t) ==
    /\ th[t].pc = "sg_lock"
    /\ gate["signal"].lock = 0
    /\ gate' = [gate EXCEPT !["signal"].signalcount = @ + 1,
                            !["signal"].cond = {}]
    /\ th' = Release(gate["signal"].cond, t, [th[t] EXCEPT !.pc = "ret"])
    /\ sent' = Append(sent, 1)
    /\ UNCHANGED <<ringVars, prog, recvd, closeRet, spurious>>

\* variant of ClearSignal_Iqsignal: signalcount is read and zeroed in two
\* sections (the lock is released in between)
ClearSignal_Iqsignal_Split(t) ==
    /\ th[t].pc \in {"cs_lock", "cs_zero"}
    /\ gate["signal"].lock = 0
    /\ IF th[t].pc = "cs_lock"
       THEN /\ th' = [th EXCEPT ![t].fetched = gate["signal"].signalcount,
                                ![t].pc = "cs_zero"]
            /\ UNCHANGED <<gate, recvd>>
       ELSE /\ gate' = [gate EXCEPT !["signal"].signalcount = 0]
            /\ th' = [th EXCEPT ![t].pc = "ret"]
            /\ recvd' = Append(recvd, th[t].fetched)
    /\ UNCHANGED <<ringVars, prog, sent, closeRet, spurious>>

\* clearsignal_iqsignal: lock; oldval = signalcount; signalcount = 0;
\* unlock; return oldval
ClearSignal_Iqsignal(t) ==
    /\ th[t].pc = "cs_lock"
    /\ gate["signal"].lock = 0
    /\ gate' = [gate EXCEPT !["signal"].signalcount = 0]
    /\ th' = [th EXCEPT ![t].fetched = gate["signal"].signalcount,
                        ![t].pc = "ret"]
    /\ recvd' = Append(recvd, gate["signal"].signalcount)
    /\ UNCHANGED <<ringVars, prog, sent, closeRet, spurious>>

\* init_iqsignal, then: threads 1 and 2 wait for the signal (thread 2 may
\* clear it instead), thread 3 signals and clears.  No queue exists.
SignalRun ==
    /\ capacity = 0
    /\ closed = 0
    /\ ifree = 0
    /\ iused = 0
    /\ sizefree = [s \in Shards |-> 0]
    /\ sizeused = [s \in Shards |-> 0]
    /\ writepos = 0
    /\ readpos = 0
    /\ msg = << >>
    /\ gate = [g \in {"signal"} |-> InitGate]
    /\ prog = [t \in Threads |->
                 IF t = 1 THEN Role({"wait"}, MaxCalls)
                 ELSE IF t = 2 THEN Role({"wait", "clearsignal"}, MaxCalls)
                 ELSE IF t = 3
                 THEN Role({"signal", "clearsignal"}, MaxCalls + 1)
                 ELSE << >>]
    /\ InitLogs(0)

StepSignal(t) ==
    \/ Call(t)
    \/ Wait_Lock(t)
    \/ Wait_Relock(t)
    \/ Signal_Iqsignal(t)
    \/ ClearSignal_Iqsignal(t)

NextSignal == \E t \in Threads : StepSignal(t) \/ SpuriousWakeup(t)

FairSignal ==
    SignalRun /\ [][NextSignal]_vars
        /\ \A t \in Threads : WF_vars(StepSignal(t))

\* ----------------------------------------- new_iqueue, new_iqueue1

\* new_iqueue: one evaluation of "while (aligned_capacity < capacity)" and
\* of the loop body.  aligned_capacity is an uint32_t: the shift wraps
\* modulo 2^32.  The limit ((size_t)-1 - sizeof(iqueue_t)) / sizeof(void*)
\* is computed in size_t: with 64 bits it exceeds every uint32_t value;
\* with 32 bits (4 byte pointers) it is 2^30 - 1 - sizeof(iqueue_t) / 4,
\* where sizeof(iqueue_t) is at least the two shard arrays and the eight
\* 32 bit fields (any size below 2^31 gives the same comparisons, as
\* aligned_capacity is 0 or a power of two).
New_Align(t) ==
    /\ th[t].pc = "new_loop"
    /\ LET less(a, b) == IF (a < 0) = (b < 0) THEN a < b ELSE b < 0
           aligned == th[t].aligned_capacity
           low == Low31(aligned)
           shifted == IF low < 1073741824 THEN 2 * low
                      ELSE 2 * (low - 1073741824) - 2147483647 - 1
           limit == 1073741823 - (8 * NROFSIZE + 32) \div 4
       IN  th' = [th EXCEPT ![t] =
                    IF ~less(aligned, th[t].request)
                    THEN [@ EXCEPT !.pc = "new_alloc"]
                    ELSE IF th[t].sizebits = 32 /\ ~less(shifted, limit)
                    THEN [@ EXCEPT !.aligned_capacity = shifted,
                                   !.err = "EINVAL", !.pc = "ret"]
                    ELSE [@ EXCEPT !.aligned_capacity = shifted]]
    /\ UNCHANGED <<ringVars, gate, prog, logVars>>

\* variant of New_Alloc: sizefree[i] = aligned_capacity
New_Alloc_FullShards(t) ==
    /\ th[t].pc = "new_alloc"
    /\ capacity' = th[t].aligned_capacity
    /\ closed' = 0
    /\ ifree' = 0
    /\ iused' = 0
    /\ sizefree' = [s \in Shards |-> th[t].aligned_capacity]
    /\ sizeused' = [s \in Shards |-> 0]
    /\ writepos' = 0
    /\ readpos' = 0
    /\ msg' = [p \in 0 .. th[t].aligned_capacity - 1 |-> 0]
    /\ gate' = [g \in Gates |-> InitGate]
    /\ th' = [th EXCEPT ![t].err = "OK", ![t].pc = "ret"]
    /\ UNCHANGED <<prog, logVars>>

\* new_iqueue: malloc, which may fail (ENOMEM); memset(0); capacity =
\* aligned_capacity; sizefree[i] = aligned_capacity / NROFSIZE;
\* init_iqsignal(reader); init_iqsignal(writer); *queue = allocated_queue
New_Alloc(t) ==
    /\ th[t].pc = "new_alloc"
    /\ \/ /\ th' = [th EXCEPT ![t].err = "ENOMEM", ![t].pc = "ret"]
          /\ UNCHANGED <<ringVars, gate>>
       \/ /\ capacity' = th[t].aligned_capacity
          /\ closed' = 0
          /\ ifree' = 0
          /\ iused' = 0
          /\ sizefree' = [s \in Shards |->
                            th[t].aligned_capacity \div NROFSIZE]
          /\ sizeused' = [s \in Shards |-> 0]
          /\ writepos' = 0
          /\ readpos' = 0
          /\ msg' = [p \in 0 .. th[t].aligned_capacity - 1 |-> 0]
          /\ gate' = [g \in Gates |-> InitGate]
          /\ th' = [th EXCEPT ![t].err = "OK", ![t].pc = "ret",
                              ![t].queue = 1]
    /\ UNCHANGED <<prog, logVars>>

\* variant of New_Iqueue1: capacity 0 is not rejected
New_Iqueue1_AcceptZero(t) ==
    /\ th[t].pc = "new1"
    /\ capacity' = th[t].request
    /\ closed' = 0
    /\ writepos' = 0
    /\ readpos' = 0
    /\ msg' = [p \in 0 .. th[t].request - 1 |-> 0]
    /\ gate' = [g \in Gates |-> InitGate]
    /\ th' = [th EXCEPT ![t].err = "OK", ![t].pc = "ret"]
    /\ UNCHANGED <<ifree, iused, sizefree, sizeused, prog, logVars>>

\* new_iqueue1: EINVAL for capacity 0 and for a capacity from the limit
\* ((size_t)-1 - sizeof(iqueue1_t)) / sizeof(void*) on (no request of
\* the runs reaches it); malloc, which may fail; memset(0); capacity is
\* kept; init_iqsignal(reader); init_iqsignal(writer)
New_Iqueue1(t) ==
    /\ th[t].pc = "new1"
    /\ IF th[t].request = 0
       THEN /\ th' = [th EXCEPT ![t].err = "EINVAL", ![t].pc = "ret"]
            /\ UNCHANGED <<ringVars, gate>>
       ELSE \/ /\ th' = [th EXCEPT ![t].err = "ENOMEM", ![t].pc = "ret"]
               /\ UNCHANGED <<ringVars, gate>>
            \/ /\ capacity' = th[t].request
               /\ closed' = 0
               /\ writepos' = 0
               /\ readpos' = 0
               /\ msg' = [p \in 0 .. th[t].request - 1 |-> 0]
               /\ gate' = [g \in Gates |-> InitGate]
               /\ th' = [th EXCEPT ![t].err = "OK", ![t].pc = "ret",
                                   ![t].queue = 1]
               /\ UNCHANGED <<ifree, iused, sizefree, sizeused>>
    /\ UNCHANGED <<prog, logVars>>

\* No queue exists.  Thread 1 calls new_iqueue or new_iqueue1 with a
\* capacity of 0 .. MaxNewCapacity, or new_iqueue with (uint32_t)-1, in a
\* build with 32 or with 64 bit size_t.  new_iqueue has computed
\* isNOTpowerof2 and the first value of aligned_capacity.
NewRun ==
    /\ capacity = 0
    /\ closed = 0
    /\ ifree = 0
    /\ iused = 0
    /\ sizefree = [s \in Shards |-> 0]
    /\ sizeused = [s \in Shards |-> 0]
    /\ writepos = 0
    /\ readpos = 0
    /\ msg = << >>
    /\ gate = << >>
    /\ prog = [t \in Threads |-> << >>]
    /\ sent = << >>
    /\ recvd = << >>
    /\ closeRet = 0
    /\ spurious = 0
    /\ \E o \in {"new", "new1"}, bits \in {32, 64},
          c \in (0 .. MaxNewCapacity) \cup {-1} :
         /\ c = -1 => o = "new"
         /\ LET isNOTpowerof2 == And32(c, Dec32(c))
                start == IF Below32(c, NROFSIZE) \/ isNOTpowerof2 # 0
                         THEN NROFSIZE
                         ELSE IF c < 0 THEN 1073741824
                         ELSE c \div 2
            IN  th = [t \in Threads |->
                        IF t # 1 THEN [IdleThread EXCEPT !.queue = 0]
                        ELSE [IdleThread EXCEPT
                                !.queue = 0,
                                !.op = o,
                                !.pc = IF o = "new" THEN "new_loop"
                                       ELSE "new1",
                                !.request = c,
                                !.sizebits = bits,
                                !.aligned_capacity =
                                    IF o = "new" THEN start ELSE 0]]

NextNew == \E t \in Threads : New_Align(t) \/ New_Alloc(t) \/ New_Iqueue1(t)

FairNew == NewRun /\ [][NextNew]_vars /\ WF_vars(NextNew)

\* ------------------------------------------------------- properties

\* no call is in flight
Quiescent == \A t \in Threads : th[t].pc = "ret"

Count(seq, h) == Cardinality({i \in DOMAIN seq : seq[i] = h})

InCells(h) == Cardinality({p \in DOMAIN msg : msg[p] = h})

Stored == {msg[p] : p \in DOMAIN msg} \ {0}

Range(seq) == {seq[i] : i \in DOMAIN seq}

\* C1: no handle is delivered twice: every handle is passed to one send
\* only, and no two receives take the same handle out of the ring.
C1_NoDuplication ==
    \A i, j \in DOMAIN recvd : i # j => recvd[i] # recvd[j]

\* two receivers were given the same cell and have fetched the same
\* handle from it; one of them has taken it
C1_Witness ==
    \E t, u \in Threads :
        /\ t # u
        /\ th[t].pc = "tr_take"
        /\ th[t].fetched \in Range(recvd)
        /\ th[u].pc = "tr_commit"
        /\ th[u].msg = th[t].fetched

\* C2: conservation of handles: when no call is in flight, the handles
\* whose send returned 0 are, each as often as it was sent, the handles
\* taken by receives plus the handles stored in cells.
C2_Conservation ==
    Quiescent =>
        \A h \in Range(sent) \cup Range(recvd) \cup Stored :
            Count(sent, h) = Count(recvd, h) + InCells(h)

\* nothing in flight, a handle received, another still stored, and a send
\* that was refused with EAGAIN
C2_Witness ==
    /\ Quiescent
    /\ recvd # << >>
    /\ Stored # {}
    /\ \E t \in Threads : SendOp(t) /\ th[t].err = "EAGAIN"

\* C3: SPSC queue, one producer and one consumer: the handles are taken
\* in the order in which their sends succeeded, whatever the capacity and
\* also when the positions wrap around the ring.
C3_Fifo1 ==
    /\ Len(recvd) <= Len(sent)
    /\ \A i \in DOMAIN recvd : recvd[i] = sent[i]

\* more handles received than the ring has cells: both positions have
\* wrapped around a ring of more than one cell
C3_Witness ==
    /\ capacity = MaxReqCapacity
    /\ Len(recvd) > capacity

\* a handle h2 was taken out of its cell only after every handle that the
\* same producer had sent before it
ProducerOrder ==
    \A j \in DOMAIN recvd : \A h \in Range(sent) :
        (Producer(h) = Producer(recvd[j]) /\ h < recvd[j])
            => \E i \in 1 .. j - 1 : recvd[i] = h

\* C4 as stated: each producer's successful sends are taken out of their
\* cells in program order, for any number of consumers.
C4_ProducerOrder == ProducerOrder

\* C4 as amended: with one consumer thread, each producer's successful
\* sends are taken out of their cells in program order.
C4_ProducerOrderOneConsumer ==
    Cardinality({t \in Threads : th[t].rcv}) <= 1 => ProducerOrder

\* one consumer has taken two handles of one producer, and another
\* producer has sent too
C4_Witness ==
    /\ Cardinality({t \in Threads : th[t].rcv}) = 1
    /\ \E i, j \in DOMAIN recvd :
          i < j /\ Producer(recvd[i]) = Producer(recvd[j])
    /\ Cardinality({Producer(h) : h \in Range(sent)}) = 2

\* C5: one send_iqueue(h) by thread 1 and one recv_iqueue by thread 2 on
\* an open, empty MPMC queue: under weak fairness of both threads the
\* recv eventually returns 0 with h.
C5_EchoOnce ==
    (th[2].op = "recv")
        ~> (th[2].pc = "ret" /\ th[2].err = "OK" /\ th[2].msg = Handle(1, 1))

\* C6: a producer (thread 2) inside send_iqueue on a full MPMC queue, and
\* a consumer that then receives a handle: under weak fairness the send
\* eventually returns 0.
C6_SenderProgress ==
    (th[2].op = "send") ~> (th[2].pc = "ret" /\ th[2].err = "OK")

\* the thread is inside pthread_cond_wait of gate g and was not released
ParkedAt(t, g) == th[t].pc = "blocked" /\ t \in gate[g].cond

\* C7: SPSC queue, send_iqueue1 and recv_iqueue1 only: in no state is the
\* producer parked on the writer condition variable while the consumer is
\* parked on the reader condition variable.
C7_NoDeadlock1 == ~(ParkedAt(1, "writer") /\ ParkedAt(2, "reader"))

\* a send, trysend, recv or tryrecv that started after a close had
\* returned, and has returned
LateReturned(t) ==
    /\ th[t].late
    /\ th[t].pc = "ret"
    /\ (SendOp(t) \/ RecvOp(t))

\* C8 as stated: once close has returned, every later send, trysend, recv
\* and tryrecv returns EPIPE, whatever its argument and however many
\* handles the ring holds, and the closed flag is never reset.
C8_ClosedMonotone ==
    /\ [](\A t \in Threads : LateReturned(t) => th[t].err = "EPIPE")
    /\ [][closed # 0 => closed' # 0]_vars

\* C8 as amended: once close has returned, every later recv and tryrecv
\* and every later send and trysend of a non-null handle returns EPIPE; a
\* later send or trysend of the null handle returns EINVAL; the closed
\* flag is never reset.
C8_ClosedMonotoneNonNull ==
    /\ [](\A t \in Threads :
            LateReturned(t) =>
                th[t].err = IF SendOp(t) /\ th[t].msg = 0
                            THEN "EINVAL" ELSE "EPIPE")
    /\ [][closed # 0 => closed' # 0]_vars

\* a send of a non-null handle that started after close had returned has
\* returned EPIPE, and the ring still holds a handle
C8_Witness ==
    /\ Stored # {}
    /\ \E t \in Threads :
         LateReturned(t) /\ SendOp(t) /\ th[t].msg # 0 /\ th[t].err = "EPIPE"

\* C9 as stated: producers parked in send_iqueue and consumers parked in
\* recv_iqueue, no other call running: every call that is parked when
\* close_iqueue is called eventually returns, and returns EPIPE.
C9_CloseUnblocks ==
    \A t \in Threads :
        th[t].atcall ~> (th[t].pc = "ret" /\ th[t].err = "EPIPE")

\* C9 as amended: every call that is parked on its gate once the closed
\* flag is set eventually returns, and returns EPIPE.
C9_CloseUnblocksParked ==
    /\ \A t \in Threads :
         (th[t].pc = "blocked" /\ closed # 0)
             ~> (th[t].pc = "ret" /\ th[t].err = "EPIPE")
    /\ [](\A t \in Threads :
            (th[t].atset /\ th[t].pc = "ret") => th[t].err = "EPIPE")

\* a send and a recv that were both parked when closed was set have both
\* returned EPIPE
C9_Witness ==
    \E t, u \in Threads :
        /\ th[t].atset /\ th[t].op = "send"
        /\ th[u].atset /\ th[u].op = "recv"
        /\ th[t].pc = "ret" /\ th[t].err = "EPIPE"
        /\ th[u].pc = "ret" /\ th[u].err = "EPIPE"

\* the thread is inside pthread_cond_wait: blocked, or released and not
\* yet owner of the mutex again
InCondWait(t) == th[t].pc \in {"blocked", "relock"}

\* what C10 says of the state in which close returns
ClosePost ==
    /\ closed # 0
    /\ gate["reader"].waitcount = 0
    /\ gate["writer"].waitcount = 0
    /\ \A t \in Threads : ~InCondWait(t)

Reclose(t) == th[t].op \in CloseCalls /\ th[t].late

\* C11: a close_iqueue called on a queue that has been closed returns, and
\* none of its steps changes the closed flag, a cell, a shard counter, a
\* position, a waitcount or a signalcount.
C11_CloseIdempotent ==
    /\ \A t \in Threads : Reclose(t) ~> (Reclose(t) /\ th[t].pc = "ret")
    /\ [][\A t \in Threads :
            (Reclose(t) /\ th'[t] # th[t]) =>
                /\ UNCHANGED ringVars
                /\ \A g \in Gates :
                     /\ gate'[g].waitcount = gate[g].waitcount
                     /\ gate'[g].signalcount = gate[g].signalcount]_vars

\* the second close has returned on a closed queue whose ring holds a
\* handle
C11_Witness ==
    /\ closeRet = 2
    /\ closed = 1
    /\ Stored # {}
    /\ \E t \in Threads : Reclose(t) /\ th[t].pc = "ret"

\* a call of send_iqueue, recv_iqueue, send_iqueue1 or recv_iqueue1
Blocking(t) == th[t].op \in (SendCalls \cup RecvCalls) \ TryCalls

\* C12: a blocking call never returns EAGAIN: it returns 0, EPIPE or, a
\* send of the null handle, EINVAL; while the queue is open a blocking
\* call that does not pass the null handle returns 0.
C12_NoWouldBlock ==
    \A t \in Threads :
        (Blocking(t) /\ th[t].pc = "ret") =>
            /\ th[t].err \in {"OK", "EPIPE", "EINVAL"}
            /\ th[t].err = "EINVAL" <=> (SendOp(t) /\ th[t].msg = 0)
            /\ (closed = 0 /\ ~(SendOp(t) /\ th[t].msg = 0))
                   => th[t].err = "OK"

\* a blocking call whose tries returned EAGAIN was parked when closed was
\* set and has returned EPIPE; another blocking call has returned 0
C12_Witness ==
    \E t, u \in Threads :
        /\ Blocking(t) /\ th[t].pc = "ret" /\ th[t].err = "OK"
        /\ Blocking(u) /\ th[u].atset /\ th[u].pc = "ret"
        /\ th[u].err = "EPIPE"

\* the threads between ++waitcount and --waitcount of gate g
InSlowPath(g) == {t \in Threads : th[t].slow /\ Own(th[t].op) = g}

\* the call of thread t has left its tries with err
Tried(t, e) ==
    /\ th[t].pc \in {"wake", "wake2", "leave", "ret"}
    /\ th[t].err = e

\* C13: whatever wakes a parked send_iqueue or recv_iqueue (a signal, a
\* broadcast, a spurious return of pthread_cond_wait), the call stays
\* counted in its gate's waitcount from the slow path's lock to its unlock;
\* it leaves its loop with 0 only once its handle has been stored in a
\* cell (send) or it has taken a handle out of a cell (recv), and with
\* EPIPE only once the queue is closed.
C13_SpuriousTolerance ==
    /\ \A g \in Gates : gate[g].waitcount = Cardinality(InSlowPath(g))
    /\ \A t \in Threads :
         Blocking(t) =>
             /\ (Tried(t, "OK") /\ SendOp(t))
                    => th[t].msg \in Stored \cup Range(recvd)
             /\ (Tried(t, "OK") /\ RecvOp(t))
                    => th[t].msg # 0 /\ th[t].msg \in Range(recvd)
             /\ Tried(t, "EPIPE") => closed # 0
             /\ th[t].pc = "leave" => th[t].err \in {"OK", "EPIPE"}

\* a send that a spurious wakeup released on the full, open ring has
\* tried again and is parked again (it has raised signalcount twice),
\* counted in writer.waitcount
C13_Witness ==
    /\ closed = 0
    /\ spurious > 0
    /\ gate["writer"].waitcount = 1
    /\ gate["writer"].signalcount = 2
    /\ \E t \in Threads : th[t].op = "send" /\ ParkedAt(t, "writer")

\* C14: every value size_iqueue or size_iqueue1 returns lies in
\* 0 .. capacity, whatever the other threads are in the middle of, and at
\* most capacity handles are sent (their send has returned 0) and not yet
\* taken out of their cell.
C14_CapacityInvariant ==
    /\ \A t \in Threads :
         (th[t].op \in {"size", "size1"} /\ th[t].pc = "ret")
             => th[t].size \in 0 .. capacity
    /\ Cardinality(Range(sent) \ Range(recvd)) <= capacity

\* size_iqueue has returned 1 while a receive holds a shard counter below
\* zero
C14_Witness ==
    /\ \E s \in Shards : sizeused[s] < 0
    /\ \E t \in Threads :
         th[t].op = "size" /\ th[t].pc = "ret" /\ th[t].size = 1

\* the calls that hold a reservation taken from shard i: a trysend_iqueue
\* between its fetchadd(-1) on sizefree[i] and its fetchadd(1) on
\* sizeused[i], a tryrecv_iqueue between its fetchadd(-1) on sizeused[i]
\* and its fetchadd(1) on sizefree[i]
Reserved(i) ==
    {t \in Threads :
        /\ th[t].idx = i
        /\ th[t].pc \in {"ts_ticket", "ts_store", "ts_commit",
                          "tr_ticket", "tr_fetch", "tr_take", "tr_commit"}}

\* the calls whose reservation on shard i failed and is not yet added back
Refused(i) ==
    {t \in Threads : th[t].idx = i /\ th[t].pc \in {"ts_undo", "tr_undo"}}

\* C15 as stated: for every shard i, sizeused[i] + sizefree[i] plus the
\* number of calls holding a reservation from i minus the number of failed
\* reservations on i not yet added back is capacity/NROFSIZE; with no
\* call in flight sizeused[i] + sizefree[i] is capacity/NROFSIZE.
C15_ShardConservation ==
    \A i \in Shards :
        /\ sizeused[i] + sizefree[i]
               + Cardinality(Reserved(i)) - Cardinality(Refused(i))
             = capacity \div NROFSIZE
        /\ Quiescent => sizeused[i] + sizefree[i] = capacity \div NROFSIZE

\* C15 as amended: for every shard i, sizeused[i] + sizefree[i] plus the
\* number of calls holding a reservation from i plus the number of failed
\* reservations on i not yet added back is capacity/NROFSIZE; with no
\* call in flight sizeused[i] + sizefree[i] is capacity/NROFSIZE.
C15_ShardConservationPending ==
    \A i \in Shards :
        /\ sizeused[i] + sizefree[i]
               + Cardinality(Reserved(i)) + Cardinality(Refused(i))
             = capacity \div NROFSIZE
        /\ Quiescent => sizeused[i] + sizefree[i] = capacity \div NROFSIZE

\* one call holds a reservation from a shard on which the reservation of
\* another call has failed and is not yet added back
C15_Witness ==
    \E i \in Shards :
        /\ Reserved(i) # {}
        /\ Refused(i) # {}
        /\ sizeused[i] + sizefree[i] = capacity \div NROFSIZE - 2

\* the gate a successful call signals
Peer(op) == IF op \in SendCalls THEN "reader" ELSE "writer"

\* thread t takes the step with which its call returns 0
ReturnsOK(t) ==
    /\ th[t].pc # "ret"
    /\ th'[t].pc = "ret"
    /\ th'[t].err = "OK"

\* C16 as stated: a successful trysend_iqueue performs the wake step of
\* send_iqueue: it does not return 0 with a consumer blocked on the reader
\* condition variable unless it releases one; a successful tryrecv_iqueue
\* likewise with the producers blocked on the writer condition variable.
C16_TryWakes ==
    [][\A t \in Threads :
          (th[t].op \in {"trysend", "tryrecv"} /\ ReturnsOK(t)
              /\ gate[Peer(th[t].op)].cond # {})
            => gate'[Peer(th[t].op)].cond # gate[Peer(th[t].op)].cond]_vars

\* C16 as amended: trysend_iqueue and tryrecv_iqueue are the try step of
\* send_iqueue and recv_iqueue and nothing else: no step of theirs changes
\* a field of a gate or releases a blocked thread, whatever they return;
\* the fast path of send_iqueue and recv_iqueue does not return 0 with a
\* thread blocked on the peer condition variable unless it releases one.
C16_TryOnly ==
    [][\A t \in Threads :
          /\ (th[t].op \in {"trysend", "tryrecv"} /\ th[t].pc # "ret"
                 /\ th'[t] # th[t])
               => /\ UNCHANGED gate
                  /\ \A x \in Threads \ {t} : th'[x] = th[x]
          /\ (th[t].op \in {"send", "recv"} /\ ~th[t].slow /\ ReturnsOK(t)
                 /\ gate[Peer(th[t].op)].cond # {})
               => gate'[Peer(th[t].op)].cond # gate[Peer(th[t].op)].cond]_vars

\* a trysend_iqueue has returned 0 and its handle is in the ring while a
\* consumer is blocked on the reader condition variable
C16_Witness ==
    \E t, x \in Threads :
        /\ th[t].op = "trysend" /\ th[t].pc = "ret" /\ th[t].err = "OK"
        /\ th[t].msg \in Stored
        /\ th[x].op = "recv" /\ ParkedAt(x, "reader")

\* thread t takes a step of its call at one of the positions pcs
StepAt(t, pcs) == th[t].pc \in pcs /\ th'[t].pc # th[t].pc

\* C17: a thread blocked on a condition variable stays blocked until a
\* send_iqueue or recv_iqueue runs pthread_cond_signal, a close runs
\* pthread_cond_broadcast or pthread_cond_wait returns spuriously; a
\* gate's waitcount changes only where a blocking call enters or leaves
\* its slow path.  No step of trysend_iqueue or tryrecv_iqueue does
\* either, whatever the call returns.
C17_TryWakesNobody ==
    [][/\ \A x \in Threads :
            (th[x].pc = "blocked" /\ th'[x].pc # "blocked") =>
                \/ spurious' # spurious
                \/ \E t \in Threads \ {x} :
                      /\ th[t].op \notin TryCalls
                      /\ StepAt(t, {"wake2", "c_pollr", "c_pollw"})
       /\ \A g \in Gates :
            gate'[g].waitcount # gate[g].waitcount =>
                \E t \in Threads :
                    /\ Blocking(t) /\ Own(th[t].op) = g
                    /\ StepAt(t, {"slowlock", "leave"})]_vars

\* a tryrecv_iqueue has returned 0 and left a free cell while a
\* send_iqueue is still blocked on the writer condition variable, counted
\* in writer.waitcount
C17_Witness ==
    \E t, x \in Threads :
        /\ th[t].op = "tryrecv" /\ th[t].pc = "ret" /\ th[t].err = "OK"
        /\ th[x].op = "send" /\ ParkedAt(x, "writer")
        /\ gate["writer"].waitcount = 1
        /\ \E p \in DOMAIN msg : msg[p] = 0

\* C18: a send_iqueue that succeeds inside its parked loop wakes a parked
\* reader before it returns, as a fast-path success does: it does not
\* return 0 with a thread blocked on the reader condition variable unless
\* it releases one; a recv_iqueue that succeeds inside its parked loop
\* likewise with the threads blocked on the writer condition variable.
C18_SlowPathWakes ==
    [][\A t \in Threads :
          (th[t].op \in {"send", "recv"} /\ th[t].slow /\ ReturnsOK(t)
              /\ gate[Peer(th[t].op)].cond # {})
            => gate'[Peer(th[t].op)].cond # gate[Peer(th[t].op)].cond]_vars

\* the threads inside pthread_cond_wait of gate g
Waiting(g) == {x \in Threads : InCondWait(x) /\ Own(th[x].op) = g}

\* thread t calls pthread_cond_signal on gate g in this step
Signals(t, g) ==
    /\ StepAt(t, {"wake2"})
    /\ gate'[g].signalcount # gate[g].signalcount

\* the threads this step releases from the condition variable of gate g
Released(g) == gate[g].cond \ gate'[g].cond

\* C19 as stated: send_iqueue and recv_iqueue signal the peer gate only
\* after their own try has returned 0 and only while a thread is inside
\* pthread_cond_wait of that gate; a signal releases one thread; only
\* close releases more than one thread in a step.
C19_WakePolicy ==
    [][/\ \A t \in Threads : \A g \in Gates :
            Signals(t, g) =>
                /\ th[t].op \in {"send", "recv"} /\ g = Peer(th[t].op)
                /\ th[t].err = "OK"
                /\ Waiting(g) # {}
                /\ Cardinality(Released(g)) <= 1
       /\ \A g \in Gates :
            Cardinality(Released(g)) > 1 =>
                \E t \in Threads :
                    /\ th[t].op \in CloseCalls
                    /\ StepAt(t, {"c_pollr", "c_pollw"})]_vars

\* C19 as amended: send_iqueue and recv_iqueue signal the peer gate only
\* after their own first try has returned 0 and only while the gate's
\* signalcount is above 0; a signal releases one thread if one is blocked
\* on the condition variable, and nobody otherwise; only close releases
\* more than one thread in a step.
C19_WakePolicySignalcount ==
    [][/\ \A t \in Threads : \A g \in Gates :
            Signals(t, g) =>
                /\ th[t].op \in {"send", "recv"} /\ g = Peer(th[t].op)
                /\ th[t].err = "OK" /\ ~th[t].slow
                /\ gate[g].signalcount > 0
                /\ Cardinality(Released(g)) =
                       (IF gate[g].cond = {} THEN 0 ELSE 1)
       /\ \A g \in Gates :
            Cardinality(Released(g)) > 1 =>
                \E t \in Threads :
                    /\ th[t].op \in CloseCalls
                    /\ StepAt(t, {"c_pollr", "c_pollw"})]_vars

\* a send_iqueue whose try has returned 0 is about to signal the reader
\* gate, whose signalcount a spurious wakeup has left above 0, while no
\* thread is inside pthread_cond_wait of that gate
C19_Witness ==
    \E t \in Threads :
        /\ th[t].op = "send" /\ th[t].pc = "wake2" /\ th[t].err = "OK"
        /\ gate["reader"].signalcount > 0
        /\ gate["reader"].lock = 0
        /\ Waiting("reader") = {}

\* a call of send_iqueue, trysend_iqueue, send_iqueue1 or trysend_iqueue1
\* that passes the null handle
NullSend(t) == SendOp(t) /\ th[t].msg = 0

\* C20: a send or trysend of the null handle, on either queue, returns
\* EINVAL with its first step and changes no field of the ring and no
\* field of a gate, whether the queue is open, full or closed.
C20_NullHandle ==
    [][\A t \in Threads :
          (NullSend(t) /\ th[t].pc # "ret" /\ th'[t] # th[t]) =>
              /\ th'[t].pc = "ret"
              /\ th'[t].err = "EINVAL"
              /\ UNCHANGED ringVars
              /\ UNCHANGED gate]_vars

\* a send of the null handle has returned EINVAL on the open MPMC queue
\* whose cells are all full
C20_Witness ==
    /\ closed = 0
    /\ \A p \in DOMAIN msg : msg[p] # 0
    /\ \E t \in Threads :
         /\ NullSend(t) /\ th[t].op \in {"send", "trysend"}
         /\ th[t].pc = "ret" /\ th[t].err = "EINVAL"

\* C21: a send, trysend, recv or tryrecv (of a non-null handle) called
\* after close has returned reads closed and returns EPIPE: none of its
\* steps changes a cell, a position, a shard counter or a gate, it neither
\* stores nor removes a handle, also when the ring holds handles, and it
\* does not enter its slow path.
C21_ClosedNoEffect ==
    [][\A t \in Threads :
          (th[t].late /\ (SendOp(t) \/ RecvOp(t)) /\ ~NullSend(t)
              /\ th[t].pc # "ret" /\ th'[t] # th[t]) =>
              /\ UNCHANGED <<ringVars, gate, sent, recvd>>
              /\ th'[t].pc \in {"ts_closed", "tr_closed", "ret"}
              /\ th'[t].pc = "ret" => th'[t].err = "EPIPE"]_vars

\* a recv_iqueue called after close had returned has returned EPIPE while
\* the ring holds a handle
C21_Witness ==
    /\ Stored # {}
    /\ \E t \in Threads :
         LateReturned(t) /\ th[t].op = "recv" /\ th[t].err = "EPIPE"

\* C22: each signal_iqsignal call adds exactly one to signalcount and
\* releases every thread that is blocked in wait_iqsignal on the condition
\* variable at that moment, whatever their number; every released thread
\* returns from wait_iqsignal, and waitcount drops back to 0 unless the
\* signal is cleared first.
C22_SignalWakesAll ==
    /\ [][\A t \in Threads :
            (th[t].pc = "sg_lock" /\ th'[t].pc = "ret") =>
                /\ gate'["signal"].signalcount =
                       gate["signal"].signalcount + 1
                /\ gate'["signal"].cond = {}
                /\ \A w \in gate["signal"].cond : th'[w].pc = "relock"]_vars
    /\ \A t \in Threads :
         (th[t].op = "wait" /\ th[t].pc = "relock") ~> (th[t].pc = "ret")
    /\ (gate["signal"].signalcount # 0 /\ gate["signal"].waitcount > 0)
          ~> (gate["signal"].waitcount = 0 \/ gate["signal"].signalcount = 0)

\* two threads blocked in wait_iqsignal have both been released by the
\* one signal_iqsignal call made so far
C22_Witness ==
    /\ th[1].op = "wait" /\ th[1].pc = "relock"
    /\ th[2].op = "wait" /\ th[2].pc = "relock"
    /\ spurious = 0
    /\ Len(sent) = 1
    /\ gate["signal"].waitcount = 2

\* C23: no step of wait_iqsignal changes signalcount; a call that finds
\* signalcount != 0 returns in that step with the signal unchanged; a call
\* that waits adds one to waitcount and takes it off again when it
\* returns, so that waitcount is the number of threads inside
\* pthread_cond_wait.
C23_WaitFrame ==
    /\ [][\A t \in Threads :
            (th[t].op = "wait" /\ th[t].pc \in {"w_lock", "relock"}
                /\ th'[t].pc # th[t].pc) =>
                /\ gate'["signal"].signalcount = gate["signal"].signalcount
                /\ (th[t].pc = "w_lock" /\ gate["signal"].signalcount # 0)
                     => (th'[t].pc = "ret" /\ gate' = gate)
                /\ gate'["signal"].waitcount =
                       gate["signal"].waitcount
                       + (IF th'[t].pc = "blocked" THEN 1 ELSE 0)
                       - (IF th[t].pc = "relock" THEN 1 ELSE 0)]_vars
    /\ [](gate["signal"].waitcount =
            Cardinality({t \in Threads : th[t].op = "wait"
                            /\ th[t].pc \in {"blocked", "relock"}}))

\* thread 1 has returned from its second wait_iqsignal with one signal
\* made, none cleared and no spurious wakeup: the second call found
\* signalcount == 1 and left it
C23_Witness ==
    /\ th[1].op = "wait" /\ th[1].pc = "ret" /\ prog[1] = << >>
    /\ spurious = 0
    /\ Len(sent) = 1
    /\ recvd = << >>
    /\ gate["signal"].signalcount = 1
    /\ gate["signal"].waitcount = 0

\* C24: whenever wait_iqsignal returns, signalcount is not 0 in the state
\* in which it returns (it unlocks the mutex in that step, so
\* signalcount_iqsignal called at that moment reads the same value).
C24_WaitUntilSignalled ==
    [][\A t \in Threads :
          (th[t].op = "wait" /\ th[t].pc # "ret" /\ th'[t].pc = "ret")
              => gate'["signal"].signalcount # 0]_vars

C27_RejectsMax ==
    \A t \in Threads :
        (th[t].op = "new" /\ th[t].request = -1)
            ~> (th[t].pc = "ret" /\ th[t].err = "EINVAL" /\ capacity = 0)

\* C28: new_iqueue1 called with capacity 0 returns EINVAL and creates no
\* queue; when it returns 0 the requested capacity is positive and is the
\* capacity of the new queue, which is open and empty: closed, readpos and
\* writepos are 0, both gates have waitcount 0 and every cell is 0; when
\* it returns an error no queue exists.
C28_New1Exact ==
    \A t \in Threads :
        (th[t].op = "new1" /\ th[t].pc = "ret") =>
            /\ th[t].request = 0 => th[t].err = "EINVAL"
            /\ th[t].err = "OK" =>
                  /\ th[t].request > 0
                  /\ capacity = th[t].request
                  /\ closed = 0
                  /\ readpos = 0 /\ writepos = 0
                  /\ \A g \in Gates : gate[g] = InitGate
                  /\ msg = [p \in 0 .. capacity - 1 |-> 0]
            /\ th[t].err # "OK" => (capacity = 0 /\ gate = << >>)

\* new_iqueue1 called with capacity 3 has returned 0 and the queue has 3
\* cells
C28_Witness ==
    /\ th[1].op = "new1" /\ th[1].pc = "ret" /\ th[1].err = "OK"
    /\ th[1].request = 3
    /\ capacity = 3

\* C29 as stated: every call that is parked when delete_iqueue is called
\* (no other call running) eventually returns, and returns EPIPE;
\* delete_iqueue leaves its polling loop only with both waitcounts read as
\* 0, and when it releases the memory no thread is inside
\* pthread_cond_wait; delete_iqueue ends with the caller's pointer null.
C29_DeleteUnblocks ==
    /\ \A t \in Threads :
         th[t].atcall ~> (th[t].pc = "ret" /\ th[t].err = "EPIPE")
    /\ \A d \in Threads : (th[d].op = "delete") ~> (th[d].queue = 0)
    /\ [][\A d \in Threads :
            /\ (th[d].op = "delete" /\ th[d].pc = "c_pollw"
                   /\ th'[d].pc = "ret") =>
                  (th[d].isreader = 0 /\ gate["writer"].waitcount = 0)
            /\ (th[d].op = "delete" /\ th[d].queue # 0
                   /\ th'[d].queue = 0) =>
                  \A t \in Threads : ~InCondWait(t)]_vars

\* C29 as amended: every call that is parked once delete_iqueue has set
\* the closed flag eventually returns, and returns EPIPE; a call parked
\* when delete_iqueue was called has returned (with EPIPE, or with 0 if
\* it was woken before the flag was set) when the memory is released;
\* delete_iqueue leaves its polling loop only with both waitcounts read as
\* 0, and when it releases the memory no thread is inside
\* pthread_cond_wait; delete_iqueue ends with the caller's pointer null.
C29_DeleteUnblocksParked ==
    /\ \A t \in Threads :
         (th[t].pc = "blocked" /\ closed # 0)
             ~> (th[t].pc = "ret" /\ th[t].err = "EPIPE")
    /\ \A d \in Threads : (th[d].op = "delete") ~> (th[d].queue = 0)
    /\ [][\A d \in Threads :
            /\ (th[d].op = "delete" /\ th[d].pc = "c_pollw"
                   /\ th'[d].pc = "ret") =>
                  (th[d].isreader = 0 /\ gate["writer"].waitcount = 0)
            /\ (th[d].op = "delete" /\ th[d].queue # 0
                   /\ th'[d].queue = 0) =>
                  \A t \in Threads :
                      /\ ~InCondWait(t)
                      /\ th[t].atcall =>
                            (th[t].pc = "ret" /\ th[t].err \in {"EPIPE", "OK"})
                      /\ th[t].atset =>
                            (th[t].pc = "ret" /\ th[t].err = "EPIPE")]_vars

\* delete_iqueue has released the queue and cleared the pointer; a send
\* and a recv that were both parked when it was called have returned EPIPE
C29_Witness ==
    /\ \E d \in Threads : th[d].op = "delete" /\ th[d].queue = 0
    /\ \E t, u \in Threads :
         /\ th[t].atcall /\ th[t].op = "send"
         /\ th[u].atcall /\ th[u].op = "recv"
         /\ th[t].pc = "ret" /\ th[t].err = "EPIPE"
         /\ th[u].pc = "ret" /\ th[u].err = "EPIPE"

\* C30: with no other call running, trysend_iqueue called on a full ring
\* and tryrecv_iqueue called on an empty ring return EAGAIN (msg is the
\* ninth field of the queue kept in snap); a trysend_iqueue that returns
\* EAGAIN leaves the queue and both gates as they were when it was
\* called, and the ring is full; a tryrecv_iqueue that returns EAGAIN
\* leaves them as they were, the ring is empty and no handle is passed
\* out.  The call
\* returns EAGAIN in its NROFSIZE-th attempt, and each failed attempt moves
\* ifree (iused) on by one shard, so that the index is back at its
\* starting value.
C30_WouldBlockFrame ==
    /\ [](\A t \in Threads :
            (th[t].op \in {"trysend", "tryrecv"} /\ th[t].pc = "ret"
                /\ th[t].err = "EAGAIN") =>
                /\ <<ringVars, gate>> = th[t].snap
                /\ th[t].op = "trysend" => \A p \in DOMAIN msg : msg[p] # 0
                /\ th[t].op = "tryrecv" =>
                      /\ \A p \in DOMAIN msg : msg[p] = 0
                      /\ th[t].msg = 0)
    /\ [](\A t \in Threads :
            (th[t].op \in {"trysend", "tryrecv"} /\ th[t].pc = "ret") =>
                LET before == th[t].snap[1][9]
                    full == \A p \in DOMAIN before : before[p] # 0
                    empty == \A p \in DOMAIN before : before[p] = 0
                IN  (IF th[t].op = "trysend" THEN full ELSE empty)
                        => th[t].err = "EAGAIN")
    /\ [][\A t \in Threads :
            /\ (th[t].pc # "ret" /\ th'[t].pc = "ret"
                   /\ th'[t].err = "EAGAIN") => th[t].i = NROFSIZE - 1
            /\ (th[t].pc = "ts_rotate" /\ th'[t].pc # "ts_rotate") =>
                  (ifree' = (ifree + 1) % NROFSIZE /\ iused' = iused)
            /\ (th[t].pc = "tr_rotate" /\ th'[t].pc # "tr_rotate") =>
                  (iused' = (iused + 1) % NROFSIZE /\ ifree' = ifree)]_vars

\* trysend_iqueue has returned EAGAIN on the full ring with ifree at the
\* last shard, where it was when the call started
C30_Witness ==
    /\ th[1].op = "trysend" /\ th[1].pc = "ret" /\ th[1].err = "EAGAIN"
    /\ ifree = NROFSIZE - 1
    /\ th[1].snap = <<ringVars, gate>>
    /\ \A p \in DOMAIN msg : msg[p] # 0

\* the call of thread t started with no other call running and no other
\* call has started since
Alone(t) == Len(th[t].snap) = 2

\* C31: on the open MPMC queue, a trysend_iqueue (of a non-null handle)
\* or tryrecv_iqueue that runs from its call to its return with no other
\* call in flight, in whatever state earlier concurrent calls have left
\* ifree, iused and the shards, returns EAGAIN if and only if the ring
\* held capacity handles (trysend) or no handle (tryrecv) when it was
\* called, and returns 0 otherwise (msg is the ninth field of the queue
\* kept in snap).
C31_ExactDetection ==
    [][\A t \in Threads :
          (th[t].op \in {"trysend", "tryrecv"} /\ th[t].pc # "ret"
              /\ th'[t].pc = "ret" /\ Alone(t)) =>
              LET before == th[t].snap[1][9]
                  held == Cardinality({p \in DOMAIN before : before[p] # 0})
              IN  /\ closed = 0 /\ th[t].snap[1][2] = 0
                  /\ th'[t].err \in {"OK", "EAGAIN"}
                  /\ th'[t].err = "EAGAIN" <=>
                        held = (IF th[t].op = "trysend" THEN capacity
                                ELSE 0)]_vars

\* after calls of both threads, a trysend_iqueue that ran alone has
\* returned 0 although the shard ifree pointed to when it was called was
\* exhausted and iused pointed to another shard (ifree, iused and
\* sizefree are the third, fourth and fifth field of the queue in snap)
C31_Witness ==
    /\ th[2].op # "none"
    /\ th[1].op = "trysend" /\ th[1].pc = "ret" /\ th[1].err = "OK"
    /\ Alone(1)
    /\ th[1].snap[1][5][th[1].snap[1][3]] = 0
    /\ th[1].snap[1][4] # th[1].snap[1][3]
    /\ \E p \in DOMAIN msg : th[1].snap[1][9][p] # 0

\* C32: a trysend_iqueue that runs with no other call in flight and
\* returns 0 has stored its handle in the cell (writepos mod capacity),
\* which was empty, added 1 to writepos and moved one unit from
\* sizefree[s] to sizeused[s] of one shard s; readpos, iused, closed,
\* capacity, the other cells and both gates are as they were when it was
\* called.  A tryrecv_iqueue that runs alone and returns 0 passes out
\* the handle of the cell (readpos mod capacity), has emptied that cell,
\* added 1 to readpos and moved one unit from sizeused[s] to sizefree[s];
\* writepos, ifree, closed, capacity, the other cells and both gates are
\* as they were.  While one thread alone has used the queue, the handles
\* are taken out in the order in which they were put in.  (snap holds the
\* queue at call time: capacity, closed, ifree, iused, sizefree, sizeused,
\* writepos, readpos, msg, and the gates.)
C32_TryEffect ==
    /\ [][\A t \in Threads :
            (th[t].op \in {"trysend", "tryrecv"} /\ th[t].pc # "ret"
                /\ th'[t].pc = "ret" /\ th'[t].err = "OK" /\ Alone(t)) =>
                LET q == th[t].snap[1]
                    wcell == q[7] % q[1]
                    rcell == q[8] % q[1]
                IN  /\ capacity' = q[1] /\ closed' = q[2]
                    /\ gate' = th[t].snap[2]
                    /\ th[t].op = "trysend" =>
                          /\ q[9][wcell] = 0
                          /\ th[t].msg # 0
                          /\ msg' = [q[9] EXCEPT ![wcell] = th[t].msg]
                          /\ writepos' = q[7] + 1
                          /\ \E s \in Shards :
                                /\ sizefree' = [q[5] EXCEPT ![s] = @ - 1]
                                /\ sizeused' = [q[6] EXCEPT ![s] = @ + 1]
                          /\ readpos' = q[8] /\ iused' = q[4]
                    /\ th[t].op = "tryrecv" =>
                          /\ q[9][rcell] # 0
                          /\ th'[t].msg = q[9][rcell]
                          /\ msg' = [q[9] EXCEPT ![rcell] = 0]
                          /\ readpos' = q[8] + 1
                          /\ \E s \in Shards :
                                /\ sizeused' = [q[6] EXCEPT ![s] = @ - 1]
                                /\ sizefree' = [q[5] EXCEPT ![s] = @ + 1]
                          /\ writepos' = q[7] /\ ifree' = q[3]]_vars
    /\ []((\A t \in Threads \ {1} : th[t].op = "none") =>
            /\ Len(recvd) <= Len(sent)
            /\ \A i \in DOMAIN recvd : recvd[i] = sent[i])

\* thread 1 alone: its third successful tryrecv_iqueue has taken the third
\* handle sent out of a cell that readpos reached after wrapping around
\* the ring
C32_Witness ==
    /\ th[1].op = "tryrecv" /\ th[1].pc = "ret" /\ th[1].err = "OK"
    /\ Alone(1)
    /\ th[1].snap[1][8] >= capacity
    /\ Len(recvd) = 3
    /\ th[1].msg = Handle(1, 3)
    /\ readpos = th[1].snap[1][8] + 1

\* the sum of the shard counters that are below cap
RECURSIVE SumBelow(_, _, _)
SumBelow(used, cap, shards) ==
    IF shards = {} THEN 0
    ELSE LET i == CHOOSE x \in shards : TRUE
         IN  (IF used[i] >= 0 /\ used[i] < cap THEN used[i] ELSE 0)
                 + SumBelow(used, cap, shards \ {i})

C34_Size1Exact ==
    [][\A t \in Threads :
          (th[t].op = "size1" /\ th[t].pc # "ret" /\ th'[t].pc = "ret"
              /\ Alone(t)) =>
              LET before == IF writepos = 0 THEN capacity - 1
                            ELSE writepos - 1
              IN  /\ th'[t].size =
                        Cardinality({p \in DOMAIN msg : msg[p] # 0})
                  /\ th'[t].size =
                        (IF readpos < writepos THEN writepos - readpos
                         ELSE IF readpos > writepos
                         THEN capacity - (readpos - writepos)
                         ELSE IF msg[before] = 0 THEN 0
                         ELSE capacity)]_vars

\* size_iqueue1 has returned 2 on a ring of 3 cells whose writepos has
\* wrapped to 0 while readpos is 1
C34_Witness ==
    /\ th[3].op = "size1" /\ th[3].pc = "ret" /\ Alone(3)
    /\ capacity = 3
    /\ writepos = 0 /\ readpos = 1
    /\ th[3].size = 2

\* the position after p in the ring
NextPos(p) == IF p + 1 >= capacity THEN 0 ELSE p + 1

\* writepos as a trysend_iqueue1 that checks the cell first would show it:
\* the value before the advance while the call stands between its advance
\* and its cmpxchg or rollback
WposCheckFirst ==
    LET S == {t \in Threads : th[t].pc \in {"ts1_store", "ts1_rollback"}}
    IN  IF S = {} THEN writepos ELSE th[CHOOSE t \in S : TRUE].pos

\* readpos as a tryrecv_iqueue1 that checks the cell first would show it
RposCheckFirst ==
    LET S == {t \in Threads :
                 th[t].pc \in {"tr1_fetch", "tr1_take", "tr1_rollback"}}
    IN  IF S = {} THEN readpos ELSE th[CHOOSE t \in S : TRUE].pos

\* Every call of trysend_iqueue1 and tryrecv_iqueue1 acts as one test of
\* the cell at the position before the advance: a trysend_iqueue1 whose
\* cmpxchg finds that cell empty stores its handle there, returns 0 and
\* leaves the position advanced by one; a tryrecv_iqueue1 whose cmpxchg
\* finds the handle it has read there takes it, returns it with 0 and leaves the
\* position advanced by one; every other step of the two leaves the
\* cells and the positions before the advance as they are, and the call
\* returns EAGAIN.
ActsAsCheckFirst ==
    [][/\ \A t \in Threads :
            (th[t].op = "trysend1" /\ th[t].pc # "ret"
                /\ th'[t].pc # th[t].pc) =>
                IF th[t].pc = "ts1_store" /\ msg[WposCheckFirst] = 0
                THEN /\ msg' = [msg EXCEPT ![WposCheckFirst] = th[t].msg]
                     /\ WposCheckFirst' = NextPos(WposCheckFirst)
                     /\ th'[t].pc = "ret" /\ th'[t].err = "OK"
                     /\ sent' = Append(sent, th[t].msg)
                ELSE /\ msg' = msg /\ sent' = sent
                     /\ WposCheckFirst' = WposCheckFirst
                     /\ th[t].pc = "ts1_store" =>
                           th'[t].pc = "ts1_rollback"
                     /\ th'[t].pc = "ret" => th'[t].err = "EAGAIN"
       /\ \A t \in Threads :
            (th[t].op = "tryrecv1" /\ th[t].pc # "ret"
                /\ th'[t].pc # th[t].pc) =>
                IF /\ th[t].pc = "tr1_take"
                   /\ th[t].fetched # 0
                   /\ msg[RposCheckFirst] = th[t].fetched
                THEN /\ msg' = [msg EXCEPT ![RposCheckFirst] = 0]
                     /\ RposCheckFirst' = NextPos(RposCheckFirst)
                     /\ th'[t].pc = "ret" /\ th'[t].err = "OK"
                     /\ th'[t].msg = msg[RposCheckFirst]
                     /\ recvd' = Append(recvd, msg[RposCheckFirst])
                ELSE /\ msg' = msg /\ recvd' = recvd
                     /\ RposCheckFirst' = RposCheckFirst
                     /\ th[t].pc = "tr1_take" =>
                           th'[t].pc = "tr1_rollback"
                     /\ th'[t].pc = "ret" => th'[t].err = "EAGAIN"
       /\ (WposCheckFirst' # WposCheckFirst) =>
             \E t \in Threads : th[t].pc = "ts1_store" /\ th'[t].pc = "ret"
       /\ (RposCheckFirst' # RposCheckFirst) =>
             \E t \in Threads : th[t].pc = "tr1_take" /\ th'[t].pc = "ret"
      ]_vars

\* A size_iqueue1 returns, modulo the capacity, the difference of a number
\* of sends and a number of receives that had returned 0 at a moment of the
\* call each: the positions it reads have moved once for every transfer
\* that succeeded and for nothing else.
PeerSizeCounted ==
    [][\A t \in Threads :
          (th[t].op = "size1" /\ th[t].pc # "ret" /\ th'[t].pc = "ret") =>
              \E a \in th[t].before[1]..Len(sent) :
                  \E b \in th[t].before[2]..Len(recvd) :
                      (th'[t].size - (a - b)) % capacity = 0]_vars

\* C35 as stated: one producer and one consumer using trysend_iqueue1 and
\* tryrecv_iqueue1, in every interleaving: the calls return, store and
\* deliver what calls that check the cell before touching the position
\* return, store and deliver, and the size_iqueue1 calls of the two
\* threads return values that such calls let them observe.
C35_AsCheckFirst == ActsAsCheckFirst /\ PeerSizeCounted

\* C35 as amended: the calls return, store and deliver what calls that
\* check the cell first return, store and deliver; a size_iqueue1 that
\* runs with no other call in flight returns the number of handles in the
\* ring.  (A size_iqueue1 that overlaps a trysend_iqueue1 or
\* tryrecv_iqueue1 may read the advanced position of a call that then
\* rolls it back.)
C35_AsCheckFirstButSize ==
    /\ ActsAsCheckFirst
    /\ [][\A t \in Threads :
            (th[t].op = "size1" /\ th[t].pc # "ret" /\ th'[t].pc = "ret"
                /\ Alone(t)) =>
                th'[t].size = Cardinality({p \in DOMAIN msg : msg[p] # 0})
         ]_vars

\* on the full ring of two cells, both sends having returned before, the
\* consumer's size_iqueue1 has returned 1 while the producer's third
\* trysend_iqueue1 stands between its advance of writepos and its
\* rollback
C35_Witness ==
    /\ capacity = 2
    /\ \A p \in DOMAIN msg : msg[p] # 0
    /\ recvd = << >>
    /\ th[1].op = "trysend1" /\ th[1].pc = "ts1_rollback"
    /\ th[2].op = "size1" /\ th[2].pc = "ret"
    /\ th[2].before = <<2, 0>>
    /\ th[2].size = 1

\* C36: trysend_iqueue and tryrecv_iqueue never block.  No step of a call
\* changes a gate (no mutex is taken, no condition variable waited on or
\* signalled); a call makes at most NROFSIZE reservation attempts; a call
\* that waits in the loop on its cell waits for a call in flight that has
\* drawn a ticket for the same cell (a trysend_iqueue for a receive that
\* has not yet taken the handle, a tryrecv_iqueue for a send that has not
\* yet stored its handle); and when every thread that can step eventually
\* does, every call returns.
C36_TryNeverBlocks ==
    /\ [][gate' = gate]_vars
    /\ [](\A t \in Threads :
            /\ th[t].pc \notin {"slowlock", "park", "blocked", "relock"}
            /\ th[t].pc \in {"ts_reserve", "tr_reserve"} =>
                  th[t].i <= NROFSIZE - 1
            /\ (th[t].pc = "ts_store" /\ msg[th[t].pos] # 0) =>
                  \E x \in Threads \ {t} :
                      /\ th[x].pc \in {"tr_fetch", "tr_take"}
                      /\ th[x].pos = th[t].pos
            /\ (th[t].pc \in {"tr_fetch", "tr_take"}
                    /\ msg[th[t].pos] = 0) =>
                  \E x \in Threads \ {t} :
                      /\ th[x].pc = "ts_store"
                      /\ th[x].pos = th[t].pos)
    /\ \A t \in Threads : (th[t].pc # "ret") ~> (th[t].pc = "ret")

\* a trysend_iqueue waits on a cell that still holds the handle of the
\* lap before while a tryrecv_iqueue that has drawn its ticket is in
\* flight
C36_Witness ==
    \E t \in Threads :
        /\ th[t].op = "trysend" /\ th[t].pc = "ts_store"
        /\ msg[th[t].pos] # 0
        /\ \E x \in Threads :
              th[x].op = "tryrecv" /\ th[x].pc \in {"tr_fetch", "tr_take"}

\* C37: the cells are handed over by the two cmpxchg alone, in the MPMC
\* and in the SPSC queue.  In every step a cell that changes either was
\* empty and now holds the handle of a send that stood at its cmpxchg on
\* that cell, or held a handle and is now empty, that handle being the one
\* a receive that stood at its cmpxchg on that cell returns.  So no send
\* overwrites a cell that holds a handle and no cell goes from one handle
\* to another.  No receive returns the empty value 0 as a handle.
C37_CellHandoff ==
    /\ [][\A p \in DOMAIN msg :
            msg'[p] # msg[p] =>
              \/ /\ msg[p] = 0
                 /\ \E t \in Threads :
                       /\ SendOp(t)
                       /\ th[t].pc \in {"ts_store", "ts1_store"}
                       /\ th[t].pos = p
                       /\ th'[t].pc # th[t].pc
                       /\ msg'[p] = th[t].msg
              \/ /\ msg[p] # 0
                 /\ msg'[p] = 0
                 /\ \E t \in Threads :
                       /\ RecvOp(t)
                       /\ th[t].pc \in {"tr_take", "tr1_take"}
                       /\ th[t].pos = p
                       /\ th'[t].pc # th[t].pc
                       /\ th'[t].msg = msg[p]
                       /\ recvd' = Append(recvd, msg[p])]_vars
    /\ [](\A i \in DOMAIN recvd : recvd[i] # 0)
    /\ [](\A t \in Threads :
            (RecvOp(t) /\ th[t].pc = "ret" /\ th[t].err = "OK") =>
                th[t].msg # 0)

\* a handle has been received, and a trysend_iqueue stands at its cmpxchg
\* on a cell that still holds a handle
C37_Witness ==
    /\ Len(recvd) >= 1
    /\ \E t \in Threads :
          /\ SendOp(t)
          /\ th[t].pc = "ts_store"
          /\ msg[th[t].pos] # 0

\* C38: the waitcount of a gate is changed only by a send_iqueue /
\* recv_iqueue (or their SPSC twins) that holds the gate's mutex: by + 1 in
\* the step that has taken the mutex for the slow path, by - 1 in the step
\* that then releases it.  It is never below 0; whenever the mutex is free
\* it is the number of threads inside pthread_cond_wait on that gate; and
\* it is 0 when no call is in its slow path on that gate.
C38_WaitcountAccounting ==
    /\ [](\A g \in Gates :
            /\ gate[g].waitcount >= 0
            /\ gate[g].lock = 0 =>
                  gate[g].waitcount =
                      Cardinality({t \in Threads :
                          /\ InCondWait(t)
                          /\ Blocking(t)
                          /\ Own(th[t].op) = g})
            /\ InSlowPath(g) = {} => gate[g].waitcount = 0)
    /\ [][\A g \in Gates :
            gate'[g].waitcount # gate[g].waitcount =>
                \E t \in Threads :
                    /\ Blocking(t)
                    /\ Own(th[t].op) = g
                    /\ \/ /\ th[t].pc = "slowlock"
                          /\ th'[t].pc # "slowlock"
                          /\ gate[g].lock = 0
                          /\ gate'[g].lock = t
                          /\ gate'[g].waitcount = gate[g].waitcount + 1
                       \/ /\ th[t].pc = "leave"
                          /\ th'[t].pc = "ret"
                          /\ gate[g].lock = t
                          /\ gate'[g].waitcount = gate[g].waitcount - 1
       ]_vars

\* the mutex of a gate is free while two calls are counted in its
\* waitcount, one blocked on the condition variable and one released from
\* it that has not got the mutex back yet
C38_Witness ==
    \E g \in Gates :
        /\ gate[g].lock = 0
        /\ gate[g].waitcount = 2
        /\ \E t \in Threads : th[t].pc = "relock" /\ Own(th[t].op) = g
        /\ \E t \in Threads : ParkedAt(t, g)

\* the calls that have drawn a ticket for cell p and not yet stored their
\* handle there (send) / not yet taken a handle from there (receive)
PendingSend(p) ==
    {t \in Threads : th[t].pc = "ts_store" /\ th[t].pos = p}

PendingRecv(p) ==
    {t \in Threads : th[t].pc \in {"tr_fetch", "tr_take"} /\ th[t].pos = p}

\* writepos - readpos, as uint32_t, lies in 0 .. capacity
TicketsWithinRing ==
    /\ Sub32(writepos, readpos) >= 0
    /\ Sub32(writepos, readpos) <= capacity

\* C39 as stated: in every state of the MPMC queue writepos - readpos
\* (modulo 2^32) lies in 0 .. capacity, and no cell has two sends or two
\* receives pending on it, also after the counters have wrapped.
C39_TicketsOneRing ==
    /\ TicketsWithinRing
    /\ \A p \in DOMAIN msg :
          /\ Cardinality(PendingSend(p)) <= 1
          /\ Cardinality(PendingRecv(p)) <= 1

\* C39 as amended: in every state of the MPMC queue writepos - readpos
\* (modulo 2^32) lies in 0 .. capacity, also after the counters have
\* wrapped.  (Tickets drawn one lap apart by calls that are both still
\* pending map to the same cell.)
C39_TicketsWithinRing == TicketsWithinRing

\* writepos has wrapped and readpos has not; a receive and then a send
\* have drawn their tickets and returned, and the difference of the
\* counters is capacity again
C39_Witness ==
    /\ writepos >= 0
    /\ readpos < 0
    /\ Sub32(writepos, readpos) = capacity
    /\ Len(recvd) >= 1
    /\ Len(sent) > capacity

\* the gate mutexes thread t holds
Holds(t) == {g \in Gates : gate[g].lock = t}

\* the gate whose mutex the next step of thread t takes ("none": the next
\* step takes no mutex)
Acquires(t) ==
    CASE th[t].pc \in {"slowlock", "relock"} -> Own(th[t].op)
      [] th[t].pc = "wake2"                  -> Peer(th[t].op)
      [] th[t].pc \in {"c_lockr", "c_pollr"} -> "reader"
      [] th[t].pc \in {"c_lockw", "c_pollw"} -> "writer"
      [] OTHER                               -> "none"

\* C40: a gate mutex is taken only when it is free and only in the steps
\* of Acquires.  A thread that holds a gate mutex while it takes another
\* is a close (close_iqueue, close_iqueue1) that holds the reader mutex
\* and takes the writer mutex; send and recv hold no mutex when they take
\* the peer's for the wakeup or their own for the slow path.  So no two
\* threads ever wait for a mutex the other one holds, for any mix of send,
\* recv and close callers.
C40_NoMutexCycle ==
    /\ [][\A g \in Gates : \A t \in Threads :
            (gate'[g].lock = t /\ gate[g].lock # t) =>
                gate[g].lock = 0 /\ Acquires(t) = g]_vars
    /\ [](\A t \in Threads :
            (Holds(t) # {} /\ Acquires(t) # "none") =>
                /\ th[t].op \in CloseCalls
                /\ Holds(t) = {"reader"}
                /\ Acquires(t) = "writer")
    /\ [](\A t \in Threads : \A x \in Threads \ {t} :
            ~(Acquires(t) \in Holds(x) /\ Acquires(x) \in Holds(t)))

\* a close holds the reader mutex and waits for the writer mutex, which a
\* send in its slow path holds, while a recv waits for the reader mutex
C40_Witness ==
    \E c \in Threads :
        /\ th[c].op \in CloseCalls
        /\ th[c].pc = "c_lockw"
        /\ Holds(c) = {"reader"}
        /\ \E w \in Threads \ {c} : SendOp(w) /\ "writer" \in Holds(w)
        /\ \E r \in Threads \ {c} : RecvOp(r) /\ Acquires(r) = "reader"

====
